---- MODULE Spec2Model ----
(***************************************************************************)
(* Verification model of the gridmen adaptive grid back end:               *)
(*   - the per-patch quadtree cell store (crms/patch/patch.py),            *)
(*   - the meta-grid assembly pipeline (templates/grid/hooks.py):          *)
(*     conflict resolution, risk balancing, neighbours, edges and the      *)
(*     batched writer of the cell and edge records,                        *)
(*   - the block partitioner (crms/grid.py).                               *)
(* Python lists are sequences, DataFrames are bags of rows, dicts are      *)
(* functions.  A Python exception is modelled by a "raised" result that    *)
(* leaves the state as the handler left it when the exception propagated.  *)
(***************************************************************************)
EXTENDS Integers, Sequences, FiniteSets, Bags, TLC

VARIABLES
    cache,      \* Patch._pd_cache: bag of rows [index_key, activate, deleted]
    pre,        \* the cache as it was before the last store operation
    last,       \* the last store operation: [op, batch, ret, raised]
    nops,       \* number of store operations applied so far
    meta,       \* assembly: [bounds, grid_info, level_info, subdivide_rules]
    patches,    \* assembly: the patches to merge, each [bounds, active]
    next_patch, \* assembly: index of the next patch of the merge loop
    activated_cell_keys, \* assembly: the set of active cell keys
    merged,     \* assembly: activated_cell_keys as the patch loop left it
    risk_threshold, \* assembly: grading_threshold
    pc,         \* assembly: position in assembly()
    topo,       \* assembly: the GridCache and the edge containers
    elements,   \* partitioner: the input list of process()
    max_blocks_size, \* partitioner: BlockGenerator.MAX_BLOCKS_SIZE
    call_stack, \* partitioner: pending _recursive_split calls, innermost first
    block_counter,   \* partitioner: BlockGenerator.block_counter
    blocks_meta,     \* partitioner: BlockGenerator.blocks_meta
    block_files,     \* partitioner: the element list written to each block file
    manifest,   \* partitioner: block_meta.json, <<>> while not written
    bpc,        \* partitioner: position in process()
    file,       \* patch.topo.parquet: [exists, rows]
    rasters,    \* writer: what the dem and lum rasters of the job are like
    wpc,        \* writer: position in the two _record_*_topology calls
    pool,       \* writer: per batch of the running pool.map, [status, records]
    finish_order, \* writer: batch numbers in the order their workers finished
    cell_topo,  \* writer: records of cell_topo.bin, <<>> while not written
    edge_topo,  \* writer: records of edge_topo.bin, <<>> while not written
    geo         \* geometry calls on a patch: [schema, level, global_id, children, boxes, gpc]

storeVars == <<cache, pre, last, nops>>
asmVars == <<meta, patches, next_patch, activated_cell_keys, merged, risk_threshold, pc, topo>>
blkVars == <<elements, max_blocks_size, call_stack, block_counter, blocks_meta,
             block_files, manifest, bpc>>
fileVars == <<file>>
wrtVars == <<rasters, wpc, pool, finish_order, cell_topo, edge_topo>>
geoVars == <<geo>>
vars == <<storeVars, asmVars, blkVars, fileVars, wrtVars, geoVars>>

\* the components a specification does not exercise stay as constructed
AsmIdle ==
    /\ meta = <<>>
    /\ patches = <<>>
    /\ next_patch = 1
    /\ activated_cell_keys = {}
    /\ merged = {}
    /\ risk_threshold = -1
    /\ pc = "idle"
    /\ topo = <<>>

BlkIdle ==
    /\ elements = <<>>
    /\ max_blocks_size = 1
    /\ call_stack = <<>>
    /\ block_counter = 0
    /\ blocks_meta = <<>>
    /\ block_files = <<>>
    /\ manifest = <<>>
    /\ bpc = "idle"

FileIdle == file = [exists |-> FALSE, rows |-> EmptyBag]

WrtIdle ==
    /\ rasters = <<>>
    /\ wpc = "idle"
    /\ pool = <<>>
    /\ finish_order = <<>>
    /\ cell_topo = <<>>
    /\ edge_topo = <<>>

GeoIdle == geo = <<>>

-----------------------------------------------------------------------------
(* Bounds of the exploration *)

MaxBatch == 2
MaxOps == 3
MaxElements == 3
MaxCap == 2
RecursionLimit == 6

-----------------------------------------------------------------------------
(* Generic helpers for Python containers *)

Range(s) == {s[i] : i \in DOMAIN s}

RECURSIVE SumCounts(_, _)
SumCounts(b, S) ==
    IF S = {} THEN 0
    ELSE LET r == CHOOSE x \in S : TRUE
         IN  b[r] + SumCounts(b, S \ {r})

\* Number of occurrences of x in the list s (collections.Counter)
RECURSIVE CountIn(_, _)
CountIn(s, x) ==
    IF s = <<>> THEN 0
    ELSE (IF Head(s) = x THEN 1 ELSE 0) + CountIn(Tail(s), x)

\* n copies of x
RECURSIVE Repeat(_, _)
Repeat(x, n) == IF n <= 0 THEN <<>> ELSE <<x>> \o Repeat(x, n - 1)

\* A list as a bag
RECURSIVE SeqToBag(_)
SeqToBag(s) == IF s = <<>> THEN EmptyBag ELSE SetToBag({Head(s)}) (+) SeqToBag(Tail(s))

\* Python runtime types of the two geometry tables
Dict(w, h) == [type |-> "dict", width |-> w, height |-> h]
List2(a, b) == [type |-> "list", e0 |-> a, e1 |-> b]

CeilDiv(a, b) == (a + b - 1) \div b

-----------------------------------------------------------------------------
(* Patch geometry: Patch.__init__ *)

patch_bounds == <<0, 0, 50, 50>>
patch_grid_info == <<<<50, 50>>, <<25, 50>>, <<25, 25>>>>

RECURSIVE RulesFrom(_, _)
RulesFrom(gi, i) ==
    IF i > Len(gi) - 1 THEN <<List2(1, 1)>>
    ELSE <<List2(gi[i][1] \div gi[i + 1][1], gi[i][2] \div gi[i + 1][2])>>
         \o RulesFrom(gi, i + 1)

\* subdivide_rules of a domain with the given bounds and per-level cell sizes
SubdivideRulesOf(bounds, gi) ==
    <<List2(CeilDiv(bounds[3] - bounds[1], gi[1][1]),
            CeilDiv(bounds[4] - bounds[2], gi[1][2]))>>
    \o RulesFrom(gi, 1)

\* level_info: entry 1 is the virtual root (level 0), entry l+1 is level l
RECURSIVE LevelInfoOf(_, _)
LevelInfoOf(rules, n) ==
    IF n = 0 THEN <<Dict(1, 1)>>
    ELSE LET prev == LevelInfoOf(rules, n - 1)
         IN  Append(prev, Dict(prev[n].width * rules[n].e0,
                               prev[n].height * rules[n].e1))

subdivide_rules == SubdivideRulesOf(patch_bounds, patch_grid_info)
level_info == LevelInfoOf(subdivide_rules, Len(subdivide_rules) - 1)

\* Python's 0-based level index into the tables
Rule(rules, level) == rules[level + 1]
Info(li, level) == li[level + 1]
NumLevels(li) == Len(li)

-----------------------------------------------------------------------------
(* Cell keys of the store.  A uint64 index key is kept as its two 32-bit   *)
(* words <<high, low>>.                                                    *)

encode_index(level, global_id) == <<level % 256, global_id>>
decode_cell_key(key) == <<key[1], key[2]>>

Row(k, a, d) == [index_key |-> k, activate |-> a, deleted |-> d]

InIndex(c, k) == \E r \in DOMAIN c : r.index_key = k
KeysOf(c) == {r.index_key : r \in DOMAIN c}
RowsOf(c, k) == {r \in DOMAIN c : r.index_key = k}

\* DataFrame.loc[keys, column] = value, as a map over the rows
BagMap(c, F(_)) ==
    LET img == {F(r) : r \in DOMAIN c}
    IN  [r2 \in img |-> SumCounts(c, {r \in DOMAIN c : F(r) = r2})]

LocSetActivate(c, keys, v) ==
    BagMap(c, LAMBDA r : IF r.index_key \in keys
                         THEN [r EXCEPT !.activate = v] ELSE r)
LocSetDeleted(c, keys, v) ==
    BagMap(c, LAMBDA r : IF r.index_key \in keys
                         THEN [r EXCEPT !.deleted = v] ELSE r)
\* DataFrame.drop(index=keys)
DropKeys(c, keys) ==
    LET keep == {r \in DOMAIN c : r.index_key \notin keys}
    IN  [r \in keep |-> c[r]]

-----------------------------------------------------------------------------
(* Patch: geometry helpers *)

\* Patch._get_parent_global_id (callers guard the IndexError, see merge_cells)
get_parent_global_id(li, rules, level, global_id) ==
    LET total_width == Info(li, level).width
        sub_width   == Rule(rules, level - 1).e0
        sub_height  == Rule(rules, level - 1).e1
        u == global_id % total_width
        v == global_id \div total_width
    IN  (v \div sub_height) * Info(li, level - 1).width + (u \div sub_width)

\* Patch._get_children_global_ids: the list of child ids, <<>> standing for None
get_children_local_ids(li, rules, level, global_id) ==
    IF level < 0 \/ level >= NumLevels(li) THEN <<>>
    ELSE [i \in 1..(Rule(rules, level).e0 * Rule(rules, level).e1) |->
            global_id * Rule(rules, level).e0 * Rule(rules, level).e1 + i - 1]
get_children_global_ids(li, rules, level, global_id) ==
    IF level < 0 \/ level >= NumLevels(li) THEN <<>>
    ELSE LET width      == Info(li, level).width
             global_u   == global_id % width
             global_v   == global_id \div width
             sub_width  == Rule(rules, level).e0
             sub_height == Rule(rules, level).e1
             sub_count  == sub_width * sub_height
             base_global_width == width * sub_width
         IN  [i \in 1..sub_count |->
                LET local_id == i - 1
                    local_u  == local_id % sub_width
                    local_v  == local_id \div sub_width
                IN  (global_v * sub_height + local_v) * base_global_width
                    + (global_u * sub_width + local_u)]

\* Patch._get_coordinates for one cell: <<min_x, min_y, max_x, max_y>>
get_coordinates(li, bbox, level, global_id) ==
    LET width  == Info(li, level).width
        height == Info(li, level).height
        gx == global_id % width
        gy == global_id \div width
    IN  << bbox[1] + ((bbox[3] - bbox[1]) * gx) \div width,
           bbox[2] + ((bbox[4] - bbox[2]) * gy) \div height,
           bbox[1] + ((bbox[3] - bbox[1]) * (gx + 1)) \div width,
           bbox[2] + ((bbox[4] - bbox[2]) * (gy + 1)) \div height >>

-----------------------------------------------------------------------------
(* Patch: the store operations.  Each returns [cache, ret, raised].        *)

OpResult(c, r, x) == [cache |-> c, ret |-> r, raised |-> x]

\* Patch._initialize_default: every level-1 cell, active and not deleted
initialize_default ==
    LET n == Info(level_info, 1).width * Info(level_info, 1).height
    IN  SetToBag({Row(encode_index(1, g), TRUE, FALSE) : g \in 0..(n - 1)})

EncodeBatch(batch) == [i \in DOMAIN batch |-> encode_index(batch[i][1], batch[i][2])]

\* rows of cache.loc[keys] that are activate and not deleted, as their index keys
ValidCount(c, k) == SumCounts(c, {r \in RowsOf(c, k) : r.activate /\ ~r.deleted})
RECURSIVE ValidRows(_, _)
ValidRows(c, keys) ==
    IF keys = <<>> THEN <<>>
    ELSE Repeat(Head(keys), ValidCount(c, Head(keys))) \o ValidRows(c, Tail(keys))

RECURSIVE ChildKeysOf(_)
ChildKeysOf(parents) ==
    IF parents = <<>> THEN <<>>
    ELSE LET lg  == decode_cell_key(Head(parents))
             ids == get_children_global_ids(level_info, subdivide_rules, lg[1], lg[2])
         IN  [i \in DOMAIN ids |-> <<(lg[1] + 1) % 256, ids[i]>>]
             \o ChildKeysOf(Tail(parents))

\* the activate flag given to the rows of children that are not yet in the store
NewChildActivate == FALSE

\* Patch.subdivide_cells
subdivide_cells(c, batch) ==
    IF batch = <<>> THEN OpResult(c, <<>>, FALSE)
    ELSE
    LET parent_keys == EncodeBatch(batch)
        existing_parents == SelectSeq(parent_keys, LAMBDA k : InIndex(c, k))
        valid_parents == ValidRows(c, existing_parents)
    IN  IF existing_parents = <<>> \/ valid_parents = <<>> THEN OpResult(c, <<>>, FALSE)
        ELSE IF \E i \in DOMAIN valid_parents :
                    decode_cell_key(valid_parents[i])[1] >= Len(subdivide_rules)
        THEN OpResult(c, <<>>, TRUE)   \* IndexError: subdivide_rules[level]
        ELSE
        LET all_children == ChildKeysOf(valid_parents)
            children == EncodeBatch(all_children)
            existing == {k \in Range(children) : InIndex(c, k)}
            new_children == SelectSeq(children, LAMBDA k : k \notin existing)
            c1 == LocSetDeleted(LocSetActivate(c, existing, TRUE), existing, FALSE)
            c2 == c1 (+) SeqToBag([i \in DOMAIN new_children |->
                                     Row(new_children[i], NewChildActivate, FALSE)])
            c3 == LocSetActivate(c2, Range(valid_parents), FALSE)
        IN  IF all_children = <<>> THEN OpResult(c, <<>>, FALSE)
            ELSE OpResult(c3, all_children, FALSE)

\* Patch.delete_cells
delete_cells(c, batch) ==
    LET cell_keys == EncodeBatch(batch)
        existing_cells == SelectSeq(cell_keys, LAMBDA k : InIndex(c, k))
        cells == Range(ValidRows(c, existing_cells))
    IN  IF existing_cells = <<>> \/ cells = {} THEN OpResult(c, <<>>, FALSE)
        ELSE OpResult(LocSetActivate(LocSetDeleted(c, cells, TRUE), cells, FALSE),
                      <<>>, FALSE)

\* Patch.restore_cells
restore_cells_activate_only(c, batch) ==
    LET cells == {k \in Range(EncodeBatch(batch)) : InIndex(c, k)}
    IN  OpResult(LocSetActivate(c, cells, TRUE), <<>>, FALSE)
restore_cells(c, batch) ==
    IF batch = <<>> THEN OpResult(c, <<>>, FALSE)
    ELSE
    LET encoded_keys == EncodeBatch(batch)
        cells == {k \in Range(encoded_keys) : InIndex(c, k)}
    IN  IF cells = {} THEN OpResult(c, <<>>, FALSE)
        ELSE OpResult(LocSetDeleted(LocSetActivate(c, cells, TRUE), cells, FALSE),
                      <<>>, FALSE)

\* parent candidates of merge_cells: level-1 keys are skipped
RECURSIVE ParentCandidates(_)
ParentCandidates(batch) ==
    IF batch = <<>> THEN <<>>
    ELSE LET level == Head(batch)[1]
             gid   == Head(batch)[2]
         IN  (IF level = 1 THEN <<>>
              ELSE << <<level - 1,
                        get_parent_global_id(level_info, subdivide_rules, level, gid)>> >>)
             \o ParentCandidates(Tail(batch))

\* the distinct elements of a list in first-occurrence order (Counter.items())
RECURSIVE Distinct(_)
Distinct(s) ==
    IF s = <<>> THEN <<>>
    ELSE LET d == Distinct(SubSeq(s, 1, Len(s) - 1))
         IN  IF s[Len(s)] \in Range(d) THEN d ELSE Append(d, s[Len(s)])

\* the count a parent needs in the batch before merge_cells activates it
MergeReady(count, expected) == count = expected

\* Patch.merge_cells
merge_cells(c, batch) ==
    IF batch = <<>> THEN OpResult(c, <<>>, FALSE)
    ELSE IF \E i \in DOMAIN batch : batch[i][1] # 1 /\ batch[i][1] >= NumLevels(level_info)
    THEN OpResult(c, <<>>, TRUE)       \* IndexError: level_info[level]
    ELSE
    LET parent_candidates == ParentCandidates(batch)
        activated_parents ==
            SelectSeq(Distinct(parent_candidates),
                      LAMBDA p :
                        /\ MergeReady(CountIn(parent_candidates, p),
                                      Rule(subdivide_rules, p[1]).e0
                                      * Rule(subdivide_rules, p[1]).e1)
                        /\ InIndex(c, encode_index(p[1], p[2])))
        keys_to_activate == {encode_index(p[1], p[2]) : p \in Range(activated_parents)}
        c1 == LocSetActivate(c, keys_to_activate, TRUE)
        keys_to_delete ==
            {k \in UNION {{encode_index(p[1] + 1, g) :
                             g \in Range(get_children_global_ids(
                                           level_info, subdivide_rules, p[1], p[2]))} :
                          p \in Range(activated_parents)} : InIndex(c1, k)}
    IN  IF parent_candidates = <<>> \/ activated_parents = <<>>
        THEN OpResult(c, <<>>, FALSE)
        ELSE OpResult(DropKeys(c1, keys_to_delete), activated_parents, FALSE)

-----------------------------------------------------------------------------
(* The store as a state machine: batches of keys applied to one patch *)

\* keys a request may name: every level the tables know, and one level beyond
BatchKeys ==
    UNION {{<<l, g>> : g \in 0..(Info(level_info, IF l < NumLevels(level_info) THEN l
                                                   ELSE NumLevels(level_info) - 1).width
                                 * Info(level_info, IF l < NumLevels(level_info) THEN l
                                                    ELSE NumLevels(level_info) - 1).height
                                 - 1)} :
           l \in 1..NumLevels(level_info)}

KeyLeq(a, b) == a[1] < b[1] \/ (a[1] = b[1] /\ a[2] <= b[2])

\* request batches: lists of at most MaxBatch keys in key order, keys may repeat
Batches ==
    UNION {{s \in [1..n -> BatchKeys] : \A i \in 1..(n - 1) : KeyLeq(s[i], s[i + 1])} :
           n \in 0..MaxBatch}

NoOp == [op |-> "init", batch |-> <<>>, ret |-> <<>>, raised |-> FALSE]

StoreInit ==
    /\ cache = initialize_default
    /\ pre = initialize_default
    /\ last = NoOp
    /\ nops = 0
    /\ AsmIdle
    /\ BlkIdle
    /\ FileIdle
    /\ WrtIdle
    /\ GeoIdle

ApplyWithin(limit, name, res, batch) ==
    /\ nops < limit
    /\ cache' = res.cache
    /\ pre' = cache
    /\ last' = [op |-> name, batch |-> batch, ret |-> res.ret, raised |-> res.raised]
    /\ nops' = nops + 1
    /\ UNCHANGED <<asmVars, blkVars, fileVars, wrtVars, geoVars>>

Apply(name, res, batch) == ApplyWithin(MaxOps, name, res, batch)

Subdivide == \E b \in Batches : Apply("subdivide", subdivide_cells(cache, b), b)
Merge     == \E b \in Batches : Apply("merge", merge_cells(cache, b), b)
Delete    == \E b \in Batches : Apply("delete", delete_cells(cache, b), b)
Restore   == \E b \in Batches : Apply("restore", restore_cells(cache, b), b)

StoreNext == Subdivide \/ Merge \/ Delete \/ Restore

SpecStore == StoreInit /\ [][StoreNext]_vars

-----------------------------------------------------------------------------
(* Persistence of the store and the two queries.  The parquet file holds   *)
(* one row (deleted, activate, index_key) per row of the cache.            *)

\* Patch._save: nothing is written for an empty cache
save(c, f) == IF c = EmptyBag THEN f ELSE [exists |-> TRUE, rows |-> c]

\* Patch._load_patch: the rows of the file if there is one, else the default cells
load_patch_default_only(f) == initialize_default
load_patch(f) == IF f.exists THEN f.rows ELSE initialize_default

\* the keys of a set in index order
RECURSIVE KeyList(_)
KeyList(S) ==
    IF S = {} THEN <<>>
    ELSE LET m == CHOOSE k \in S : \A o \in S : KeyLeq(k, o)
         IN  <<m>> \o KeyList(S \ {m})

\* index.values of the rows of c whose column col is True, in index order
RECURSIVE IndexValues(_, _, _)
IndexValues(c, keys, col) ==
    IF keys = <<>> THEN <<>>
    ELSE Repeat(Head(keys), SumCounts(c, {r \in RowsOf(c, Head(keys)) : r[col]}))
         \o IndexValues(c, Tail(keys), col)

\* Patch.get_activated_cell_infos: reloads the patch, then reads the active rows
get_activated_cell_infos(f) ==
    LET c == load_patch(f)
    IN  OpResult(c, IndexValues(c, KeyList(KeysOf(c)), "activate"), FALSE)

\* Patch.get_deleted_cell_infos: reloads the patch, then reads the deleted rows
get_deleted_cell_infos(f) ==
    LET c == load_patch(f)
    IN  OpResult(c, IndexValues(c, KeyList(KeysOf(c)), "deleted"), FALSE)

\* the number of operations of a persistence run
PersistOps == 3

\* request batches of the persistence runs: one key, one key twice, or a key
\* followed by a key of the level beyond the tables
PersistBatches ==
    {<<k>> : k \in BatchKeys} \cup {<<k, k>> : k \in BatchKeys}
    \cup {<<k, <<NumLevels(level_info), 0>>>> : k \in BatchKeys}

Save ==
    /\ nops < PersistOps
    /\ file' = save(cache, file)
    /\ pre' = cache
    /\ last' = [op |-> "save", batch |-> <<>>, ret |-> <<>>, raised |-> FALSE]
    /\ nops' = nops + 1
    /\ UNCHANGED <<cache, asmVars, blkVars, wrtVars, geoVars>>

\* a new Patch object on the same resource: its first cache access loads the patch
Load ==
    /\ nops < PersistOps
    /\ cache' = load_patch(file)
    /\ pre' = cache
    /\ last' = [op |-> "load", batch |-> <<>>, ret |-> <<>>, raised |-> FALSE]
    /\ nops' = nops + 1
    /\ UNCHANGED <<asmVars, blkVars, fileVars, wrtVars, geoVars>>

QueryActive == ApplyWithin(PersistOps, "query_active", get_activated_cell_infos(file), <<>>)
QueryDeleted == ApplyWithin(PersistOps, "query_deleted", get_deleted_cell_infos(file), <<>>)

PersistSubdivide ==
    \E b \in PersistBatches : ApplyWithin(PersistOps, "subdivide", subdivide_cells(cache, b), b)
PersistMerge ==
    \E b \in PersistBatches : ApplyWithin(PersistOps, "merge", merge_cells(cache, b), b)
PersistDelete ==
    \E b \in PersistBatches : ApplyWithin(PersistOps, "delete", delete_cells(cache, b), b)
PersistRestore ==
    \E b \in PersistBatches : ApplyWithin(PersistOps, "restore", restore_cells(cache, b), b)

PersistNext ==
    \/ PersistSubdivide
    \/ PersistMerge
    \/ PersistDelete
    \/ PersistRestore
    \/ Save
    \/ Load
    \/ QueryActive
    \/ QueryDeleted

SpecPersist == StoreInit /\ [][PersistNext]_vars

-----------------------------------------------------------------------------
(* Long runs on one branch of the quadtree: requests that name the first    *)
(* cell of a level, or the two children of the level-1 cell.                *)

\* the number of operations of a run down the branch
DeepOps == 6

DeepBatches ==
    {<<<<l, 0>>>> : l \in 1..NumLevels(level_info)} \cup {<<<<2, 0>>, <<2, 1>>>>}

DeepSubdivide ==
    \E b \in DeepBatches : ApplyWithin(DeepOps, "subdivide", subdivide_cells(cache, b), b)
DeepMerge ==
    \E b \in DeepBatches : ApplyWithin(DeepOps, "merge", merge_cells(cache, b), b)
DeepDelete ==
    \E b \in DeepBatches : ApplyWithin(DeepOps, "delete", delete_cells(cache, b), b)
DeepRestore ==
    \E b \in DeepBatches : ApplyWithin(DeepOps, "restore", restore_cells(cache, b), b)

DeepNext ==
    \/ DeepSubdivide
    \/ DeepMerge
    \/ DeepDelete
    \/ DeepRestore

SpecDeepen == StoreInit /\ [][DeepNext]_vars

-----------------------------------------------------------------------------
(* Claims about the patch cell store *)

RowCount(c, k) == SumCounts(c, RowsOf(c, k))
IsValidIn(c, k) == \E r \in RowsOf(c, k) : r.activate /\ ~r.deleted
DeepestLevel == NumLevels(level_info) - 1

\* the keys of the children of cell k, one level deeper
ChildrenOf(k) ==
    {<<k[1] + 1, g>> :
        g \in Range(get_children_global_ids(level_info, subdivide_rules, k[1], k[2]))}

\* the rows of key k are the same in both stores
SameRows(c1, c2, k) ==
    /\ RowsOf(c1, k) = RowsOf(c2, k)
    /\ \A r \in RowsOf(c1, k) : c1[r] = c2[r]

\* C2: in every reachable store no row has activate = TRUE and deleted = TRUE.
C2_ActiveNotDeleted ==
    \A r \in DOMAIN cache : ~(r.activate /\ r.deleted)

\* C3: after subdivide(keys), every key of the batch that was active and not
\* deleted is inactive, each of its children is in the store with activate = TRUE
\* and deleted = FALSE, and the returned keys are exactly these children.
C3_SubdividePost ==
    (last.op = "subdivide" /\ ~last.raised) =>
        LET done == {k \in Range(last.batch) : IsValidIn(pre, k)}
        IN  /\ \A k \in done :
                /\ \A r \in RowsOf(cache, k) : ~r.activate
                /\ \A ch \in ChildrenOf(k) :
                      /\ InIndex(cache, ch)
                      /\ \A r \in RowsOf(cache, ch) : r.activate /\ ~r.deleted
            /\ Range(last.ret) = UNION {ChildrenOf(k) : k \in done}

\* C4: for every store and every active, not deleted cell above the deepest
\* level, subdivide of the cell followed by merge of the returned keys leaves the
\* cell active, none of its children in the store, and every other row as before.
C4_SubdivideMergeInverse ==
    \A k \in KeysOf(cache) :
        (IsValidIn(cache, k) /\ k[1] < DeepestLevel) =>
            LET s == subdivide_cells(cache, <<k>>)
                m == merge_cells(s.cache, s.ret)
            IN  /\ ~s.raised /\ ~m.raised
                /\ InIndex(m.cache, k)
                /\ \A r \in RowsOf(m.cache, k) : r.activate
                /\ \A ch \in ChildrenOf(k) : ~InIndex(m.cache, ch)
                /\ \A o \in (KeysOf(cache) \cup KeysOf(m.cache))
                             \ ({k} \cup ChildrenOf(k)) : SameRows(cache, m.cache, o)

\* C5: a merge batch whose distinct keys under a parent P are a proper subset of
\* P's children leaves the rows of P and of its children unchanged and does not
\* return P.
C5_PartialMergeIgnored ==
    last.op = "merge" =>
        \A p \in BatchKeys :
            (p[1] < NumLevels(level_info)
             /\ (Range(last.batch) \cap ChildrenOf(p)) # ChildrenOf(p)) =>
                /\ \A o \in {p} \cup ChildrenOf(p) : SameRows(pre, cache, o)
                /\ p \notin Range(last.ret)

\* C6: no cell key occurs in more than one row of the store.
C6_UniqueKeys ==
    \A k \in KeysOf(cache) : RowCount(cache, k) = 1

\* the strict descendants of cell k down to the deepest level
RECURSIVE DescendantsOf(_)
DescendantsOf(k) ==
    IF k[1] >= DeepestLevel THEN {}
    ELSE ChildrenOf(k) \cup UNION {DescendantsOf(ch) : ch \in ChildrenOf(k)}

\* C27: in every state of the store reached from the default state by batches
\* of subdivide, merge, delete and restore, no cell with activate = TRUE has a
\* strict descendant with activate = TRUE.
C27_ActiveCellsAreLeaves ==
    \A k \in KeysOf(cache) :
        (k[1] <= DeepestLevel /\ \E r \in RowsOf(cache, k) : r.activate) =>
            \A d \in DescendantsOf(k) \cap KeysOf(cache) :
                \A r \in RowsOf(cache, d) : ~r.activate

\* C28: in every reachable state of the store every key has a level between 1
\* and the deepest real level, len(level_info) - 1: subdividing an active cell
\* of the deepest level, whose rule is (1, 1), creates no cell one level deeper,
\* and an operation on keys of the store does not raise.
C28_LevelsWithinTables ==
    /\ \A k \in KeysOf(cache) : k[1] >= 1 /\ k[1] <= DeepestLevel
    /\ Range(EncodeBatch(last.batch)) \subseteq KeysOf(pre) => ~last.raised

\* the keys of the rows of c whose column col is True
KeysWith(c, col) == {r.index_key : r \in {x \in DOMAIN c : x[col]}}

\* C13: query_active() returns exactly the keys whose activate flag is true in
\* the store as the preceding operations left it (saved or not), query_deleted()
\* exactly the keys whose deleted flag is true, and a query leaves the store as
\* it was.
C13_QueryReflectsStore ==
    /\ last.op = "query_active" =>
          (Range(last.ret) = KeysWith(pre, "activate") /\ cache = pre)
    /\ last.op = "query_deleted" =>
          (Range(last.ret) = KeysWith(pre, "deleted") /\ cache = pre)

\* the children that the valid keys of a batch get
ChildrenOfValid(c, batch) ==
    UNION {ChildrenOf(k) : k \in {x \in Range(EncodeBatch(batch)) : IsValidIn(c, x)}}

\* C14: subdivide never raises; a batch key that is absent, inactive or deleted
\* is left alone (its rows change only if it is a child of a valid batch key) and
\* gets no children; a batch of only such keys returns nothing and leaves the
\* store unchanged; applying the same batch a second time is a no-op.
C14_SubdivideSkipsInvalid ==
    last.op = "subdivide" =>
        LET keys == Range(EncodeBatch(last.batch))
            skipped == {k \in keys : ~IsValidIn(pre, k)}
            again == subdivide_cells(cache, last.batch)
        IN  /\ ~last.raised
            /\ \A k \in skipped \ ChildrenOfValid(pre, last.batch) :
                  SameRows(pre, cache, k)
            /\ \A k \in skipped :
                  k[1] < NumLevels(level_info) =>
                    \A ch \in ChildrenOf(k) \ (keys \cup ChildrenOfValid(pre, last.batch)) :
                        SameRows(pre, cache, ch)
            /\ skipped = keys => (last.ret = <<>> /\ cache = pre)
            /\ ~again.raised /\ again.ret = <<>> /\ again.cache = cache

\* C15: after restore(keys) every batch key that is in the store has
\* activate = TRUE and deleted = FALSE in all its rows, no key is created or
\* removed, and the rows of every key outside the batch are as before.
C15_RestorePost ==
    last.op = "restore" =>
        LET keys == Range(EncodeBatch(last.batch))
        IN  /\ ~last.raised
            /\ KeysOf(cache) = KeysOf(pre)
            /\ \A k \in keys \cap KeysOf(pre) :
                  /\ RowCount(cache, k) = RowCount(pre, k)
                  /\ \A r \in RowsOf(cache, k) : r.activate /\ ~r.deleted
            /\ \A k \in KeysOf(pre) \ keys : SameRows(pre, cache, k)

\* a restore batch with a key that was deleted, a key that was inactive and
\* one that is not in the store
C15_Witness ==
    /\ last.op = "restore"
    /\ \E k \in Range(last.batch) : \E r \in RowsOf(pre, k) : r.deleted
    /\ \E k \in Range(last.batch) : ~InIndex(pre, k) /\ ~InIndex(cache, k)
    /\ cache # pre

\* level and global id pairs at the ends of the two key words
CodecInputs == BatchKeys \cup {<<0, 0>>, <<255, 0>>, <<255, 2147483647>>, <<1, 2147483647>>}

-----------------------------------------------------------------------------
(* The geometry calls on their own: children ids of a cell and the         *)
(* bounding boxes of these children, on patches of several shapes.         *)

PatchOf(bounds, rules) ==
    [bounds |-> bounds, subdivide_rules |-> rules,
     level_info |-> LevelInfoOf(rules, Len(rules) - 1)]

\* bounds [0,0,100,100], level 1 of 2x2 cells, each cell split 2x2
GeoSquare == PatchOf(<<0, 0, 100, 100>>, <<List2(2, 2), List2(2, 2), List2(1, 1)>>)
\* the same level 1, split along x and then along y
GeoStrips == PatchOf(<<0, 0, 100, 100>>,
                     <<List2(2, 2), List2(2, 1), List2(1, 2), List2(1, 1)>>)
\* a 2x1 level 1 split 5x5
GeoWide == PatchOf(<<0, 0, 100, 50>>, <<List2(2, 1), List2(5, 5), List2(1, 1)>>)
GeoPatches == {GeoSquare, GeoStrips, GeoWide}

GeoCells(g) ==
    UNION {{<<l, id>> : id \in 0..(Info(g.level_info, l).width
                                   * Info(g.level_info, l).height - 1)} :
           l \in 1..(NumLevels(g.level_info) - 1)}

GeoInit ==
    /\ \E g \in GeoPatches : \E k \in GeoCells(g) :
          geo = [patch |-> g, level |-> k[1], global_id |-> k[2],
                 children |-> <<>>, boxes |-> <<>>, raised |-> FALSE, gpc |-> "start"]
    /\ cache = EmptyBag
    /\ pre = EmptyBag
    /\ last = NoOp
    /\ nops = 0
    /\ AsmIdle
    /\ BlkIdle
    /\ FileIdle
    /\ WrtIdle

\* the (level, global_id) lists that subdivide_cells returns for one parent
GetChildren ==
    /\ geo.gpc = "start"
    /\ LET ids == get_children_global_ids(geo.patch.level_info, geo.patch.subdivide_rules,
                                          geo.level, geo.global_id)
       IN  geo' = [geo EXCEPT !.children = [i \in DOMAIN ids |-> <<geo.level + 1, ids[i]>>],
                              !.gpc = "children"]
    /\ UNCHANGED <<storeVars, asmVars, blkVars, fileVars, wrtVars>>

\* _get_coordinates of the children; level_info[level] raises IndexError for a
\* level the table does not hold
GetCoordinates ==
    /\ geo.gpc = "children"
    /\ IF geo.level + 1 >= NumLevels(geo.patch.level_info)
       THEN geo' = [geo EXCEPT !.raised = TRUE, !.gpc = "done"]
       ELSE geo' = [geo EXCEPT
                      !.boxes = [i \in DOMAIN geo.children |->
                                   get_coordinates(geo.patch.level_info, geo.patch.bounds,
                                                   geo.children[i][1], geo.children[i][2])],
                      !.gpc = "done"]
    /\ UNCHANGED <<storeVars, asmVars, blkVars, fileVars, wrtVars>>

GeoNext == GetChildren \/ GetCoordinates

SpecGeometry == GeoInit /\ [][GeoNext]_vars

GeoCase == geo.patch = GeoSquare /\ geo.level = 1 /\ geo.global_id = 0 /\ geo.gpc = "done"

\* C17 as stated: with bounds [0,0,100,100], level 1 of 2x2 cells and rule
\* (2,2), the children of cell (1,0) are (2,0), (2,1), (2,2), (2,3) and their
\* boxes are [0,0,25,25], [25,0,50,25], [0,25,25,50], [25,25,50,50].
C17_ChildrenAsStated ==
    GeoCase =>
        /\ geo.children = << <<2, 0>>, <<2, 1>>, <<2, 2>>, <<2, 3>> >>
        /\ geo.boxes = << <<0, 0, 25, 25>>, <<25, 0, 50, 25>>,
                          <<0, 25, 25, 50>>, <<25, 25, 50, 50>> >>

\* C17 amended: the children of cell (1,0) are (2,0), (2,1), (2,4), (2,5), ids
\* counted row by row over the whole 4x4 level 2, with boxes [0,0,25,25],
\* [25,0,50,25], [0,25,25,50], [25,25,50,50]; on every patch the boxes of the
\* children of a cell lie inside the cell's box and have together its area.
C17_ChildrenGlobalIds ==
    /\ GeoCase =>
          /\ geo.children = << <<2, 0>>, <<2, 1>>, <<2, 4>>, <<2, 5>> >>
          /\ geo.boxes = << <<0, 0, 25, 25>>, <<25, 0, 50, 25>>,
                            <<0, 25, 25, 50>>, <<25, 25, 50, 50>> >>
    /\ (geo.gpc = "done" /\ ~geo.raised) =>
          LET b == get_coordinates(geo.patch.level_info, geo.patch.bounds,
                                   geo.level, geo.global_id)
              Area(x) == (x[3] - x[1]) * (x[4] - x[2])
              RECURSIVE Sum(_)
              Sum(q) == IF q = <<>> THEN 0 ELSE Area(Head(q)) + Sum(Tail(q))
          IN  /\ \A i \in DOMAIN geo.boxes :
                    /\ b[1] <= geo.boxes[i][1] /\ geo.boxes[i][3] <= b[3]
                    /\ b[2] <= geo.boxes[i][2] /\ geo.boxes[i][4] <= b[4]
              /\ \A i, j \in DOMAIN geo.boxes : i # j => geo.boxes[i] # geo.boxes[j]
              /\ Sum(geo.boxes) = Area(b)

C17_Witness == GeoCase /\ ~geo.raised /\ Len(geo.boxes) = 4

-----------------------------------------------------------------------------
(* Assembly: geometry of the meta grid (assembly(), templates/grid/hooks.py) *)

Geometry(bounds, gi) ==
    LET rules == SubdivideRulesOf(bounds, gi)
    IN  [bounds |-> bounds, grid_info |-> gi,
         subdivide_rules |-> rules,
         level_info |-> LevelInfoOf(rules, Len(rules) - 1)]

\* two schemas: one refines along x only, the other along y only
\* each with the bounds of two patches: the whole domain and its upper / right half
SchemaH == [grid_info |-> <<<<40, 40>>, <<20, 40>>, <<10, 40>>>>,
            patch_bounds |-> <<<<0, 0, 40, 80>>, <<0, 40, 40, 80>>>>]
SchemaV == [grid_info |-> <<<<40, 40>>, <<40, 20>>, <<40, 10>>>>,
            patch_bounds |-> <<<<0, 0, 80, 40>>, <<40, 0, 80, 40>>>>]
\* a third schema with two real levels, the second refining both axes
SchemaQ == [grid_info |-> <<<<40, 40>>, <<20, 20>>>>,
            patch_bounds |-> <<<<0, 0, 80, 40>>, <<40, 0, 80, 40>>>>]
Schemas == {SchemaH, SchemaV, SchemaQ}

\* every key of the levels 1..deepest of a level_info table
LevelKeys(li, l) == {<<l, g>> : g \in 0..(Info(li, l).width * Info(li, l).height - 1)}
AllKeys(li) == UNION {LevelKeys(li, l) : l \in 1..(NumLevels(li) - 1)}

encode_cell_key(level, global_id) == <<level, global_id>>

\* _get_all_ancestor_keys
RECURSIVE AncestorsFrom(_, _, _, _)
AncestorsFrom(parent_level, child_global_id, li, rules) ==
    IF parent_level < 1 THEN <<>>
    ELSE LET rule == Rule(rules, parent_level)
             parent_level_cols == Info(li, parent_level).width
             child_level_cols  == Info(li, parent_level + 1).width
             child_gid_u == child_global_id % child_level_cols
             child_gid_v == child_global_id \div child_level_cols
             parent_gid_u == child_gid_u \div rule.e0
             parent_gid_v == child_gid_v \div rule.e1
             parent_global_id == parent_gid_v * parent_level_cols + parent_gid_u
         IN  <<encode_cell_key(parent_level, parent_global_id)>>
             \o AncestorsFrom(parent_level - 1, parent_global_id, li, rules)

\* variant: only the direct parent is collected
get_all_ancestor_keys_parent_only(key, li, rules) ==
    SubSeq(AncestorsFrom(key[1] - 1, key[2], li, rules), 1, 1)

get_all_ancestor_keys(key, li, rules) == AncestorsFrom(key[1] - 1, key[2], li, rules)

\* int(f * n + 0.5) for the fraction f = num / den >= 0
RoundMul(num, den, n) == (2 * num * n + den) \div (2 * den)

\* _update_cells_by_patch: the meta-grid keys of one patch's active cells
update_cells_by_patch(patch, gi, meta_bounds, meta_level_info) ==
    LET patch_li == LevelInfoOf(SubdivideRulesOf(patch.bounds, gi), Len(gi))
        col_num == patch.bounds[1] - meta_bounds[1]
        col_den == meta_bounds[3] - meta_bounds[1]
        row_num == patch.bounds[2] - meta_bounds[2]
        row_den == meta_bounds[4] - meta_bounds[2]
    IN  {LET level == k[1]
             meta_level_cols == Info(meta_level_info, level).width
             meta_level_rows == Info(meta_level_info, level).height
             patch_level_cols == Info(patch_li, level).width
             patch_gid_u == k[2] % patch_level_cols
             patch_gid_v == k[2] \div patch_level_cols
             meta_gid_u == RoundMul(col_num, col_den, meta_level_cols) + patch_gid_u
             meta_gid_v == RoundMul(row_num, row_den, meta_level_rows) + patch_gid_v
         IN  encode_cell_key(level, meta_gid_v * meta_level_cols + meta_gid_u)
         : k \in patch.active}

\* assembly(): the conflict filter, levels len(meta_level_info) down to 2
RECURSIVE ResolveFrom(_, _, _, _)
ResolveFrom(ks, level, li, rules) ==
    IF level < 2 THEN ks
    ELSE LET keys_at_level == {k \in ks : k[1] = level}
             ancestor_keys_to_remove ==
                 UNION {Range(get_all_ancestor_keys(k, li, rules)) : k \in keys_at_level}
         IN  ResolveFrom(ks \ ancestor_keys_to_remove, level - 1, li, rules)

\* variant: only the deepest level that holds keys is filtered
resolve_conflicts_one_level(ks, li, rules) ==
    ks \ UNION {Range(get_all_ancestor_keys(k, li, rules)) :
                  k \in {x \in ks : x[1] = NumLevels(li) - 1}}

resolve_conflicts(ks, li, rules) == ResolveFrom(ks, NumLevels(li), li, rules)

-----------------------------------------------------------------------------
(* Assembly: risk balancing *)

\* EdgeCode
NORTH == 0
WEST  == 1
SOUTH == 2
EAST  == 3
EdgeCodes == {NORTH, WEST, SOUTH, EAST}

\* TOGGLE_EDGE_CODE_MAP
toggle_edge_code(code) ==
    CASE code = NORTH -> SOUTH
      [] code = WEST  -> EAST
      [] code = SOUTH -> NORTH
      [] code = EAST  -> WEST

\* ADJACENT_CHECK_NORTH / _WEST / _SOUTH / _EAST, selected by the side searched
adjacent_check_far_side(code, local_id, sub_width, sub_height) ==
    CASE code = SOUTH -> local_id < sub_width
      [] code = WEST  -> local_id % sub_width = 0
      [] code = EAST  -> local_id % sub_width = sub_width - 1
      [] code = NORTH -> local_id >= sub_width * (sub_height - 1)
adjacent_check(code, local_id, sub_width, sub_height) ==
    CASE code = NORTH -> local_id < sub_width
      [] code = EAST  -> local_id % sub_width = 0
      [] code = WEST  -> local_id % sub_width = sub_width - 1
      [] code = SOUTH -> local_id >= sub_width * (sub_height - 1)

\* _get_cell_from_uv: <<level, global_id>>, or <<>> for None
get_cell_from_uv(level, level_cols, level_rows, u, v, meta_level_info) ==
    IF level >= Len(meta_level_info) \/ level < 0 THEN <<>>
    ELSE IF u < 0 \/ u >= level_cols \/ v < 0 \/ v >= level_rows THEN <<>>
    ELSE <<level, v * level_cols + u>>

\* the cell across side `code` of cell (level, global_id), as _find_risk_cells and
\* _find_cell_neighbours compute it
cell_across(code, level, global_id, meta_level_info) ==
    LET cols == Info(meta_level_info, level).width
        rows == Info(meta_level_info, level).height
        global_u == global_id % cols
        global_v == global_id \div cols
    IN  CASE code = NORTH -> get_cell_from_uv(level, cols, rows, global_u, global_v + 1, meta_level_info)
          [] code = WEST  -> get_cell_from_uv(level, cols, rows, global_u - 1, global_v, meta_level_info)
          [] code = SOUTH -> get_cell_from_uv(level, cols, rows, global_u, global_v - 1, meta_level_info)
          [] code = EAST  -> get_cell_from_uv(level, cols, rows, global_u + 1, global_v, meta_level_info)

\* _get_children_global_ids of hooks.py: [raised, ids]; raised is the TypeError of
\* meta_level_info[level]['width'] or subdivide_rules[level][0] on a table of the
\* other kind
h_get_children_global_ids(level, global_id, meta_level_info, rules) ==
    IF level < 0 \/ level >= Len(meta_level_info) THEN [raised |-> FALSE, ids |-> <<>>]
    ELSE IF Info(meta_level_info, level).type # "dict" \/ Rule(rules, level).type # "list"
    THEN [raised |-> TRUE, ids |-> <<>>]
    ELSE LET cols       == Info(meta_level_info, level).width
             global_u   == global_id % cols
             global_v   == global_id \div cols
             sub_width  == Rule(rules, level).e0
             sub_height == Rule(rules, level).e1
             sub_count  == sub_width * sub_height
             sub_total_cols == cols * sub_width
         IN  [raised |-> FALSE,
              ids |-> [i \in 1..sub_count |->
                        LET local_id == i - 1
                            local_u  == local_id % sub_width
                            local_v  == local_id \div sub_width
                        IN  (global_v * sub_height + local_v) * sub_total_cols
                            + (global_u * sub_width + local_u)]]

\* the descent of _check_risk_along_edge below a cell that is not a leaf
RECURSIVE RiskBelow(_, _, _, _, _, _, _, _)
RiskBelow(threshold, cell_keys, rules, meta_level_info, cell_level, lv, gid, code) ==
    IF lv >= Len(rules) THEN FALSE
    ELSE LET sub_width  == Rule(rules, lv).e0
             sub_height == Rule(rules, lv).e1
             ids == h_get_children_global_ids(lv, gid, meta_level_info, rules).ids
         IN  \E i \in DOMAIN ids :
                /\ adjacent_check(code, i - 1, sub_width, sub_height)
                /\ IF encode_cell_key(lv + 1, ids[i]) \in cell_keys
                   THEN (lv + 1) - cell_level > threshold
                   ELSE RiskBelow(threshold, cell_keys, rules, meta_level_info,
                                  cell_level, lv + 1, ids[i], code)

\* _check_risk_along_edge
check_risk_along_edge(threshold, cell_keys, rules, meta_level_info, cell_level, neighbour_level, neighbour_global_id, code) ==
    IF encode_cell_key(neighbour_level, neighbour_global_id) \in cell_keys THEN FALSE
    ELSE RiskBelow(threshold, cell_keys, rules, meta_level_info, cell_level,
                   neighbour_level, neighbour_global_id, code)

\* _find_risk_cells
find_risk_cells(threshold, cell_keys, rules, meta_level_info) ==
    {k \in cell_keys :
        \E code \in EdgeCodes :
            LET n == cell_across(code, k[1], k[2], meta_level_info)
            IN  /\ n # <<>>
                /\ check_risk_along_edge(threshold, cell_keys, rules, meta_level_info,
                                         k[1], n[1], n[2], code)}

\* _refine_risk_cells(risk_cells, subdivide_rules, meta_level_info): [raised, cells]
refine_risk_cells(risk_cells, rules, meta_level_info) ==
    LET ch(k) == h_get_children_global_ids(k[1], k[2], meta_level_info, rules)
    IN  IF \E k \in risk_cells : ch(k).raised
        THEN [raised |-> TRUE, cells |-> {}]
        ELSE [raised |-> FALSE,
              cells |-> UNION {{encode_cell_key(k[1] + 1, g) : g \in Range(ch(k).ids)} :
                               k \in risk_cells}]

\* the call of _refine_risk_cells in assembly(): the arguments as written there
refine_call(risk_cells, meta_level_info, rules) ==
    refine_risk_cells(risk_cells, meta_level_info, rules)

-----------------------------------------------------------------------------
(* Assembly: neighbours *)

\* sorted(activated_cell_keys): the GridCache array
RECURSIVE SortKeys(_)
SortKeys(S) ==
    IF S = {} THEN <<>>
    ELSE LET m == CHOOSE x \in S : \A y \in S : KeyLeq(x, y)
         IN  <<m>> \o SortKeys(S \ {m})

\* GridCache.map
IndexOf(array, k) == CHOOSE i \in DOMAIN array : array[i] = k

\* the descent of _find_neighbours_along_edge: the leaves collected in adj_children
RECURSIVE LeavesBelow(_, _, _, _, _, _)
LeavesBelow(cell_keys, rules, meta_level_info, lv, gid, code) ==
    IF lv >= Len(rules) THEN {}
    ELSE LET sub_width  == Rule(rules, lv).e0
             sub_height == Rule(rules, lv).e1
             ids == h_get_children_global_ids(lv, gid, meta_level_info, rules).ids
         IN  UNION {IF ~adjacent_check(code, i - 1, sub_width, sub_height) THEN {}
                    ELSE IF encode_cell_key(lv + 1, ids[i]) \in cell_keys
                    THEN {encode_cell_key(lv + 1, ids[i])}
                    ELSE LeavesBelow(cell_keys, rules, meta_level_info, lv + 1, ids[i], code)
                    : i \in DOMAIN ids}

\* _find_neighbours_along_edge: the cells it passes to _update_cell_neighbour
find_neighbours_along_edge(cell_keys, rules, meta_level_info, n, code) ==
    IF n \in cell_keys THEN {n}
    ELSE LeavesBelow(cell_keys, rules, meta_level_info, n[1], n[2], code)

FoundFrom(cell_keys, rules, meta_level_info, k, code) ==
    LET n == cell_across(code, k[1], k[2], meta_level_info)
    IN  IF n = <<>> THEN {}
        ELSE find_neighbours_along_edge(cell_keys, rules, meta_level_info, n, code)

\* variant: a relation is entered on the side of the cell it was found from only
find_cell_neighbours_one_sided(array, rules, meta_level_info) ==
    [i \in DOMAIN array |->
      [code \in EdgeCodes |->
        {j \in DOMAIN array :
            array[j] \in FoundFrom(Range(array), rules, meta_level_info, array[i], code)}]]

\* _find_cell_neighbours with _update_cell_neighbour: every relation found from a
\* cell is entered on that cell's side and on the neighbour's opposite side.
\* Indices are 1-based here (Python index + 1).
find_cell_neighbours(array, rules, meta_level_info) ==
    LET cell_keys == Range(array)
    IN  [i \in DOMAIN array |->
          [code \in EdgeCodes |->
            {j \in DOMAIN array :
                \/ array[j] \in FoundFrom(cell_keys, rules, meta_level_info, array[i], code)
                \/ array[i] \in FoundFrom(cell_keys, rules, meta_level_info, array[j],
                                          toggle_edge_code(code))}]]

-----------------------------------------------------------------------------
(* Assembly: edges *)

RECURSIVE Gcd(_, _)
Gcd(a, b) == IF b = 0 THEN a ELSE Gcd(b, a % b)

\* variant: the fraction is returned as given
simplify_fraction_unreduced(n, m) == <<n, m>>

\* _simplify_fraction: <<numerator, denominator>>
simplify_fraction(n, m) == <<n \div Gcd(n, m), m \div Gcd(n, m)>>

\* the float comparison f[0] / f[1] < g[0] / g[1] of two fractions
FracLess(f, g) == f[1] * g[2] < g[1] * f[2]

\* _get_fractional_coords: <<x_min, x_max, y_min, y_max>>
get_fractional_coords(level, global_id, meta_level_info) ==
    LET width  == Info(meta_level_info, level).width
        height == Info(meta_level_info, level).height
        u == global_id % width
        v == global_id \div width
    IN  <<simplify_fraction(u, width), simplify_fraction(u + 1, width),
          simplify_fraction(v, height), simplify_fraction(v + 1, height)>>

\* edge_index_cache, edge_adj_cell_indices and GridCache.edges before _calc_cell_edges
\* (cell indices are 1-based, 0 stands for None; edge indices are 1-based)
EmptyEdges(n) ==
    [cache |-> <<>>, adj |-> <<>>, edges |-> [i \in 1..n |-> [code \in EdgeCodes |-> {}]]]

PositionOf(seq, x) == CHOOSE i \in DOMAIN seq : seq[i] = x

\* variant: the requesting cell always takes the second slot
SlotsFor_b_first(a, b, code_from_a) == <<b, a>>

\* variant: the requesting cell always takes the first slot
SlotsFor_a_first(a, b, code_from_a) == <<a, b>>

\* which slot order _get_edge_index stores for a new edge
SlotsFor(a, b, code_from_a) ==
    IF code_from_a = NORTH \/ code_from_a = WEST THEN <<b, a>> ELSE <<a, b>>

\* variant: every request appends a new edge, the dictionary is never consulted
get_edge_index_no_lookup(es, cell_key_a, cell_key_b, direction, edge_range_info, code_from_a) ==
    [es |-> [es EXCEPT !.cache = Append(@, <<direction, Len(es.cache)>>),
                       !.adj = Append(@, SlotsFor(cell_key_a, cell_key_b, code_from_a))],
     index |-> Len(es.cache) + 1]

\* _get_edge_index: [es, index]
get_edge_index(es, cell_key_a, cell_key_b, direction, edge_range_info, code_from_a) ==
    LET lo     == edge_range_info[1]
        hi     == edge_range_info[2]
        shared == edge_range_info[3]
        swap   == FracLess(hi, lo)
        mn     == IF swap THEN hi ELSE lo
        mx     == IF swap THEN lo ELSE hi
        edge_key == <<IF direction # 0 THEN 1 ELSE 0, mn[1], mn[2], mx[1], mx[2],
                      shared[1], shared[2]>>
    IN  IF edge_key \notin Range(es.cache)
        THEN [es |-> [es EXCEPT !.cache = Append(@, edge_key),
                                !.adj = Append(@, SlotsFor(cell_key_a, cell_key_b, code_from_a))],
              index |-> Len(es.cache) + 1]
        ELSE [es |-> es, index |-> PositionOf(es.cache, edge_key)]

\* variant: the side's set is overwritten by the new edge
add_edge_to_cell_replace(es, cell_key, edge_code, edge_index) ==
    [es EXCEPT !.edges[cell_key][edge_code] = {edge_index}]

\* _add_edge_to_cell
add_edge_to_cell(es, cell_key, edge_code, edge_index) ==
    [es EXCEPT !.edges[cell_key][edge_code] = @ \cup {edge_index}]

\* one _get_edge_index call of an edge routine with the _add_edge_to_cell calls that
\* follow it; req.b = 0 is the call with cell_key_b = None
EdgeRequest(es, cell_index, req, direction, shared_f, edge_code, op_edge_code) ==
    LET r  == get_edge_index(es, cell_index, req.b, direction,
                             <<req.lo, req.hi, shared_f>>, edge_code)
        e1 == add_edge_to_cell(r.es, cell_index, edge_code, r.index)
    IN  IF req.b = 0 THEN e1 ELSE add_edge_to_cell(e1, req.b, op_edge_code, r.index)

RECURSIVE EdgeRequests(_, _, _, _, _, _, _)
EdgeRequests(es, cell_index, reqs, direction, shared_f, edge_code, op_edge_code) ==
    IF reqs = <<>> THEN es
    ELSE EdgeRequests(EdgeRequest(es, cell_index, Head(reqs), direction, shared_f,
                                  edge_code, op_edge_code),
                      cell_index, Tail(reqs), direction, shared_f, edge_code, op_edge_code)

\* the varying range of a cell along an edge of the given direction:
\* x for horizontal edges (1), y for vertical edges (0)
RangeMin(fc, direction) == IF direction = 1 THEN fc[1] ELSE fc[3]
RangeMax(fc, direction) == IF direction = 1 THEN fc[2] ELSE fc[4]

\* processed_neighbours.sort(key = x_min or y_min)
RECURSIVE SortNeighbours(_, _, _)
SortNeighbours(S, fract_coords, direction) ==
    IF S = {} THEN <<>>
    ELSE LET m == CHOOSE x \in S : \A y \in S :
                      ~FracLess(RangeMin(fract_coords[y], direction),
                                RangeMin(fract_coords[x], direction))
         IN  <<m>> \o SortNeighbours(S \ {m}, fract_coords, direction)

Req(b, lo, hi) == [b |-> b, lo |-> lo, hi |-> hi]

\* variant: only the edges towards neighbours, no edge for a stretch without one
NeighbourRequests_no_gaps(pn, fract_coords, direction, cell_min_f, cell_max_f) ==
    [i \in DOMAIN pn |-> Req(pn[i], RangeMin(fract_coords[pn[i]], direction),
                                    RangeMax(fract_coords[pn[i]], direction))]

\* the calls made by the branch "neighbours have equal or higher levels", in order
NeighbourRequests(pn, fract_coords, direction, cell_min_f, cell_max_f) ==
    LET mn(i) == RangeMin(fract_coords[pn[i]], direction)
        mx(i) == RangeMax(fract_coords[pn[i]], direction)
        k == Len(pn)
        RECURSIVE Between(_)
        Between(i) ==
            IF i >= k THEN <<>>
            ELSE <<Req(pn[i], mn(i), mx(i))>>
                 \o (IF mx(i) # mn(i + 1) THEN <<Req(0, mx(i), mn(i + 1))>> ELSE <<>>)
                 \o Between(i + 1)
    IN  (IF cell_min_f # mn(1) THEN <<Req(0, cell_min_f, mn(1))>> ELSE <<>>)
        \o Between(1)
        \o <<Req(pn[k], mn(k), mx(k))>>
        \o (IF cell_max_f # mx(k) THEN <<Req(0, mx(k), cell_max_f)>> ELSE <<>>)

\* the common body of _calc_horizontal_edges (direction 1) and _calc_vertical_edges
\* (direction 0)
calc_side_edges(es, array, fract_coords, cell_index, level, neighbour_indices, direction, edge_code, op_edge_code, shared_f) ==
    LET cell_min_f == RangeMin(fract_coords[cell_index], direction)
        cell_max_f == RangeMax(fract_coords[cell_index], direction)
        only == CHOOSE n \in neighbour_indices : TRUE
    IN  IF neighbour_indices = {}
        THEN EdgeRequest(es, cell_index, Req(0, cell_min_f, cell_max_f),
                         direction, shared_f, edge_code, op_edge_code)
        ELSE IF Cardinality(neighbour_indices) = 1 /\ array[only][1] < level
        THEN EdgeRequest(es, cell_index, Req(only, cell_min_f, cell_max_f),
                         direction, shared_f, edge_code, op_edge_code)
        ELSE EdgeRequests(es, cell_index,
                          NeighbourRequests(SortNeighbours(neighbour_indices, fract_coords, direction),
                                            fract_coords, direction, cell_min_f, cell_max_f),
                          direction, shared_f, edge_code, op_edge_code)

\* _calc_horizontal_edges
calc_horizontal_edges(es, array, fract_coords, cell_index, level, neighbour_indices, edge_code, op_edge_code, shared_y_f) ==
    calc_side_edges(es, array, fract_coords, cell_index, level, neighbour_indices,
                    1, edge_code, op_edge_code, shared_y_f)

\* _calc_vertical_edges
calc_vertical_edges(es, array, fract_coords, cell_index, level, neighbour_indices, edge_code, op_edge_code, shared_x_f) ==
    calc_side_edges(es, array, fract_coords, cell_index, level, neighbour_indices,
                    0, edge_code, op_edge_code, shared_x_f)

\* the four calls _calc_cell_edges makes for one cell: north, west, south, east
CellEdges(es, array, fract_coords, neighbours, i) ==
    LET level == array[i][1]
        fc == fract_coords[i]
        n == calc_horizontal_edges(es, array, fract_coords, i, level, neighbours[i][NORTH],
                                   NORTH, SOUTH, fc[4])
        w == calc_vertical_edges(n, array, fract_coords, i, level, neighbours[i][WEST],
                                 WEST, EAST, fc[1])
        s == calc_horizontal_edges(w, array, fract_coords, i, level, neighbours[i][SOUTH],
                                   SOUTH, NORTH, fc[3])
    IN  calc_vertical_edges(s, array, fract_coords, i, level, neighbours[i][EAST],
                            EAST, WEST, fc[2])

\* the table _calc_cell_edges fills before its loop
FractCoords(array, meta_level_info) ==
    [i \in DOMAIN array |-> get_fractional_coords(array[i][1], array[i][2], meta_level_info)]

-----------------------------------------------------------------------------
(* assembly() as a state machine *)

MaxActive == 2

Thresholds == {-1, 0, 1}

SetMin(S) == CHOOSE x \in S : \A y \in S : x <= y
SetMax(S) == CHOOSE x \in S : \A y \in S : x >= y

\* _get_bounds: the union of the patches' bounds
get_bounds(ps) ==
    <<SetMin({ps[i].bounds[1] : i \in DOMAIN ps}), SetMin({ps[i].bounds[2] : i \in DOMAIN ps}),
      SetMax({ps[i].bounds[3] : i \in DOMAIN ps}), SetMax({ps[i].bounds[4] : i \in DOMAIN ps})>>

\* the keys a patch of the given bounds can hold at its real levels
PatchKeys(bounds, gi) == AllKeys(LevelInfoOf(SubdivideRulesOf(bounds, gi), Len(gi)))

\* what Patch.get_activated_cell_infos can return for a patch: at most MaxActive keys
ActiveSets(bounds, gi) == {S \in SUBSET PatchKeys(bounds, gi) : Cardinality(S) <= MaxActive}

\* sets in which no key has an ancestor
LeafSets(li, rules) ==
    {S \in SUBSET AllKeys(li) :
        \A k \in S : Range(get_all_ancestor_keys(k, li, rules)) \cap S = {}}

NoTopo == <<>>

\* assembly() is entered with a schema, a list of patches and a grading threshold
AsmInit ==
    /\ \E sch \in Schemas, t \in Thresholds :
          \E a \in ActiveSets(sch.patch_bounds[1], sch.grid_info),
             b \in ActiveSets(sch.patch_bounds[2], sch.grid_info) :
                /\ meta = [grid_info |-> sch.grid_info]
                /\ patches = <<[bounds |-> sch.patch_bounds[1], active |-> a],
                               [bounds |-> sch.patch_bounds[2], active |-> b]>>
                /\ risk_threshold = t
    /\ next_patch = 1
    /\ activated_cell_keys = {}
    /\ merged = {}
    /\ pc = "start"
    /\ topo = NoTopo
    /\ cache = initialize_default
    /\ pre = initialize_default
    /\ last = NoOp
    /\ nops = 0
    /\ BlkIdle
    /\ FileIdle
    /\ WrtIdle
    /\ GeoIdle

\* lines 1284-1318: bounds, subdivide rules and level table of the meta grid
InitMeta ==
    /\ pc = "start"
    /\ meta' = Geometry(get_bounds(patches), meta.grid_info)
    /\ pc' = "patches"
    /\ UNCHANGED <<patches, next_patch, activated_cell_keys, merged, risk_threshold, topo>>
    /\ UNCHANGED <<storeVars, blkVars, fileVars, wrtVars, geoVars>>

\* one iteration of the patch loop, lines 1329-1334
UpdateCellsByPatch ==
    /\ pc = "patches"
    /\ next_patch <= Len(patches)
    /\ LET ks == activated_cell_keys
                 \cup update_cells_by_patch(patches[next_patch], meta.grid_info,
                                            meta.bounds, meta.level_info)
       IN  /\ activated_cell_keys' = ks
           /\ merged' = ks
    /\ next_patch' = next_patch + 1
    /\ pc' = IF next_patch = Len(patches) THEN "resolve" ELSE "patches"
    /\ UNCHANGED <<meta, patches, risk_threshold, topo>>
    /\ UNCHANGED <<storeVars, blkVars, fileVars, wrtVars, geoVars>>

\* the conflict filter, lines 1336-1345
FilterConflicts ==
    /\ pc = "resolve"
    /\ activated_cell_keys' =
          resolve_conflicts(activated_cell_keys, meta.level_info, meta.subdivide_rules)
    /\ pc' = "grade"
    /\ UNCHANGED <<meta, patches, next_patch, merged, risk_threshold, topo>>
    /\ UNCHANGED <<storeVars, blkVars, fileVars, wrtVars, geoVars>>

\* the grading block, lines 1350-1358: skipped for a negative threshold, otherwise
\* one iteration of its loop; the TypeError of the refinement ends assembly()
GradeCells ==
    /\ pc = "grade"
    /\ IF risk_threshold < 0
       THEN /\ pc' = "topology"
            /\ UNCHANGED activated_cell_keys
       ELSE LET risk_cells == find_risk_cells(risk_threshold, activated_cell_keys,
                                              meta.subdivide_rules, meta.level_info)
                refined == refine_call(risk_cells, meta.level_info, meta.subdivide_rules)
            IN  IF risk_cells = {}
                THEN /\ pc' = "topology"
                     /\ UNCHANGED activated_cell_keys
                ELSE IF refined.raised
                THEN /\ pc' = "failed"
                     /\ UNCHANGED activated_cell_keys
                ELSE /\ pc' = "grade"
                     /\ activated_cell_keys' =
                           refined.cells \cup (activated_cell_keys \ risk_cells)
    /\ UNCHANGED <<meta, patches, next_patch, merged, risk_threshold, topo>>
    /\ UNCHANGED <<storeVars, blkVars, fileVars, wrtVars, geoVars>>

\* lines 1362-1379: the sorted GridCache and _find_cell_neighbours
FindCellNeighbours ==
    /\ pc = "topology"
    /\ LET array == SortKeys(activated_cell_keys)
       IN  topo' = [array |-> array,
                    neighbours |-> find_cell_neighbours(array, meta.subdivide_rules,
                                                        meta.level_info),
                    es |-> EmptyEdges(Len(array)),
                    grid_index |-> 1]
    /\ pc' = "edges"
    /\ UNCHANGED <<meta, patches, next_patch, activated_cell_keys, merged, risk_threshold>>
    /\ UNCHANGED <<storeVars, blkVars, fileVars, wrtVars, geoVars>>

\* line 1384: one iteration of the cell loop of _calc_cell_edges (the loop body
\* does not run for an empty array)
CalcCellEdges ==
    /\ pc = "edges"
    /\ IF topo.array = <<>>
       THEN /\ topo' = topo
            /\ pc' = "done"
       ELSE /\ topo' = [topo EXCEPT
                          !.es = CellEdges(topo.es, topo.array,
                                           FractCoords(topo.array, meta.level_info),
                                           topo.neighbours, topo.grid_index),
                          !.grid_index = @ + 1]
            /\ pc' = IF topo.grid_index = Len(topo.array) THEN "done" ELSE "edges"
    /\ UNCHANGED <<meta, patches, next_patch, activated_cell_keys, merged, risk_threshold>>
    /\ UNCHANGED <<storeVars, blkVars, fileVars, wrtVars, geoVars>>

\* assembly() from its entry to the end of the grading block; the topology steps
\* that follow are explored by SpecTopology from every conflict-free leaf set
AsmNext ==
    \/ InitMeta
    \/ UpdateCellsByPatch
    \/ FilterConflicts
    \/ GradeCells

SpecAssembly == AsmInit /\ [][AsmNext]_vars

\* the patch loop on its own, for patches that tile the union bounds in whole
\* first-level cells and for patches whose width is not a multiple of the
\* first-level cell size
RemapLayouts ==
    {SchemaQ,
     [grid_info |-> <<<<40, 40>>, <<20, 20>>>>,
      patch_bounds |-> <<<<0, 0, 50, 40>>, <<50, 0, 100, 40>>>>]}

RemapInit ==
    /\ \E sch \in RemapLayouts :
          \E a \in ActiveSets(sch.patch_bounds[1], sch.grid_info),
             b \in ActiveSets(sch.patch_bounds[2], sch.grid_info) :
                /\ meta = [grid_info |-> sch.grid_info]
                /\ patches = <<[bounds |-> sch.patch_bounds[1], active |-> a],
                               [bounds |-> sch.patch_bounds[2], active |-> b]>>
    /\ risk_threshold = -1
    /\ next_patch = 1
    /\ activated_cell_keys = {}
    /\ merged = {}
    /\ pc = "start"
    /\ topo = NoTopo
    /\ cache = initialize_default
    /\ pre = initialize_default
    /\ last = NoOp
    /\ nops = 0
    /\ BlkIdle
    /\ FileIdle
    /\ WrtIdle
    /\ GeoIdle

RemapNext ==
    \/ InitMeta
    \/ UpdateCellsByPatch

SpecRemap == RemapInit /\ [][RemapNext]_vars

\* assembly() at the grading block, over every conflict-free leaf set of a schema
\* (one patch over the whole domain holds the set)
TopoInit ==
    /\ \E sch \in Schemas, t \in Thresholds :
          LET g == Geometry(sch.patch_bounds[1], sch.grid_info)
          IN  \E S \in LeafSets(g.level_info, g.subdivide_rules) :
                /\ meta = g
                /\ patches = <<[bounds |-> sch.patch_bounds[1], active |-> S]>>
                /\ risk_threshold = t
                /\ activated_cell_keys = S
                /\ merged = S
    /\ next_patch = 2
    /\ pc = "grade"
    /\ topo = NoTopo
    /\ cache = initialize_default
    /\ pre = initialize_default
    /\ last = NoOp
    /\ nops = 0
    /\ BlkIdle
    /\ FileIdle
    /\ WrtIdle
    /\ GeoIdle

TopoNext ==
    \/ GradeCells
    \/ FindCellNeighbours
    \/ CalcCellEdges

SpecTopology == TopoInit /\ [][TopoNext]_vars

-----------------------------------------------------------------------------
(* The topology writer: _record_cell_topology and _record_edge_topology.   *)
(* Coordinates are integers; a sampling point is kept as twice its         *)
(* coordinates.  None is <<>>, a sampled value v is <<v>>.                 *)

BatchSize == 2
CpuCount == 2
MaxCells == 3

\* the elements of a set of integers in ascending order (sorted)
RECURSIVE SortedInts(_)
SortedInts(S) ==
    IF S = {} THEN <<>>
    ELSE LET m == CHOOSE x \in S : \A y \in S : x <= y
         IN  <<m>> \o SortedInts(S \ {m})

\* the concatenation of a list of lists
RECURSIVE Concat(_)
Concat(q) == IF q = <<>> THEN <<>> ELSE Head(q) \o Concat(Tail(q))

\* rasterio.open of a path: no source for a missing path, an exception for a
\* file that cannot be opened
open_raster(kind) ==
    CASE kind = "missing"    -> "none"
      [] kind = "unopenable" -> "raised"
      [] OTHER               -> "src"

\* _get_raster_value at the point (x2 / 2, y2 / 2): None outside the extent, for a
\* nodata pixel and for any exception of the read
get_raster_value(kind, x2, y2, bbox) ==
    CASE kind = "void" -> <<>>
      [] kind = "west_half" -> IF x2 > bbox[1] + bbox[3] THEN <<>> ELSE <<7>>
      [] kind = "wide" -> <<300>>
      [] OTHER -> <<7>>

\* _get_cell_coordinates
get_cell_coordinates(level, global_id, bbox, meta_level_info, grid_info) ==
    LET width == Info(meta_level_info, level).width
        u == global_id % width
        v == global_id \div width
        grid_width  == grid_info[level][1]
        grid_height == grid_info[level][2]
        min_xs == bbox[1] + u * grid_width
        min_ys == bbox[2] + v * grid_height
    IN  <<min_xs, min_ys, min_xs + grid_width, min_ys + grid_height>>

\* struct.pack('!B', value) raises struct.error outside 0..255
PacksAsUint8(value) == value >= 0 /\ value <= 255

\* _generate_cell_record: the unpacked fields, or the struct.error of a field
generate_cell_record(index, key, edges, bbox, meta_level_info, grid_info, altitude, lum_type) ==
    [raised |-> \/ ~PacksAsUint8(lum_type)
                \/ \E code \in EdgeCodes : ~PacksAsUint8(Cardinality(edges[code])),
     index |-> index + 1,
     box |-> get_cell_coordinates(key[1], key[2], bbox, meta_level_info, grid_info),
     altitude |-> altitude,
     lum_type |-> lum_type,
     west |-> SortedInts(edges[WEST]), east |-> SortedInts(edges[EAST]),
     south |-> SortedInts(edges[SOUTH]), north |-> SortedInts(edges[NORTH])]

\* the sampled altitude and category of a point, with their defaults
sample_altitude(rs, x2, y2, bbox) ==
    IF open_raster(rs.dem) = "none" THEN -9999
    ELSE LET val == get_raster_value(rs.dem, x2, y2, bbox)
         IN  IF val = <<>> THEN -9999 ELSE val[1]
sample_lum_type(rs, x2, y2, bbox) ==
    IF open_raster(rs.lum) = "none" THEN 0
    ELSE LET val == get_raster_value(rs.lum, x2, y2, bbox)
         IN  IF val = <<>> THEN 0 ELSE val[1]

\* the raster handles of a worker: the two rasterio.open calls ahead of the try
\* block, dem first, and the close calls of its finally block, which runs only
\* when both opens returned
raster_handles(rs) ==
    LET dem_src == open_raster(rs.dem)
        lum_src == IF dem_src = "raised" THEN "unreached" ELSE open_raster(rs.lum)
        opened  == {name \in {"dem", "lum"} :
                       (IF name = "dem" THEN dem_src ELSE lum_src) = "src"}
    IN  [opened |-> opened,
         closed |-> IF dem_src = "raised" \/ lum_src = "raised" THEN {} ELSE opened]

\* the result of a worker: its records, or the exception it ended with
WorkerResult(recs, open_failed) ==
    IF open_failed \/ \E i \in DOMAIN recs : recs[i].raised
    THEN [raised |-> TRUE, records |-> <<>>]
    ELSE [raised |-> FALSE, records |-> recs]

\* _batch_cell_records_worker on the batch (cell_data, cell_edges, offset)
batch_cell_records_worker(cell_data, cell_edges, offset, bbox, meta_level_info, grid_info, rs) ==
    WorkerResult(
        [i \in DOMAIN cell_data |->
            LET key == cell_data[i]
                c   == get_cell_coordinates(key[1], key[2], bbox, meta_level_info, grid_info)
            IN  generate_cell_record(offset + (i - 1), key, cell_edges[i], bbox,
                                     meta_level_info, grid_info,
                                     sample_altitude(rs, c[1] + c[3], c[2] + c[4], bbox),
                                     sample_lum_type(rs, c[1] + c[3], c[2] + c[4], bbox))],
        open_raster(rs.dem) = "raised" \/ open_raster(rs.lum) = "raised")

\* the end points of an edge: <<x_min, y_min, x_max, y_max>>
edge_coordinates(edge_data, bbox) ==
    LET w == bbox[3] - bbox[1]
        h == bbox[4] - bbox[2]
    IN  IF edge_data[1] = 0
        THEN <<bbox[1] + (edge_data[6] * w) \div edge_data[7],
               bbox[2] + (edge_data[2] * h) \div edge_data[3],
               bbox[1] + (edge_data[6] * w) \div edge_data[7],
               bbox[2] + (edge_data[4] * h) \div edge_data[5]>>
        ELSE <<bbox[1] + (edge_data[2] * w) \div edge_data[3],
               bbox[2] + (edge_data[6] * h) \div edge_data[7],
               bbox[1] + (edge_data[4] * w) \div edge_data[5],
               bbox[2] + (edge_data[6] * h) \div edge_data[7]>>

\* _generate_edge_record: the category is packed as int32, which every sampled
\* value of the model fits
generate_edge_record(index, edge_data, edge_grids, bbox, altitude, lum_type) ==
    [raised |-> FALSE,
     index |-> index + 1,
     direction |-> edge_data[1],
     ends |-> edge_coordinates(edge_data, bbox),
     cells |-> <<edge_grids[1], edge_grids[2]>>,
     altitude |-> altitude,
     lum_type |-> lum_type]

\* _batch_edge_records_worker on the batch (edge_data, edge_cells, offset)
batch_edge_records_worker(edge_data, edge_cells, offset, bbox, rs) ==
    WorkerResult(
        [i \in DOMAIN edge_data |->
            LET c == edge_coordinates(edge_data[i], bbox)
            IN  generate_edge_record(offset + (i - 1), edge_data[i], edge_cells[i], bbox,
                                     sample_altitude(rs, c[1] + c[3], c[2] + c[4], bbox),
                                     sample_lum_type(rs, c[1] + c[3], c[2] + c[4], bbox))],
        open_raster(rs.dem) = "raised" \/ open_raster(rs.lum) = "raised")

\* range(0, n, batch_size): the start offsets of the batches
BatchOffsets(n) == [b \in 1..CeilDiv(n, BatchSize) |-> (b - 1) * BatchSize]

\* GridCache.slice_cells / slice_edges / _slice_edge_info: the slice of a list
Slice(q, start_index, length) ==
    SubSeq(q, start_index + 1, IF start_index + length < Len(q)
                               THEN start_index + length ELSE Len(q))

\* variant: the chunks are collected in the order their workers finished
pool_map_completion_order(p, order, phase) ==
    Concat([i \in 1..Len(SelectSeq(order, LAMBDA o : o[1] = phase)) |->
              p[SelectSeq(order, LAMBDA o : o[1] = phase)[i][2]].records])

\* pool.map and the concatenation loop: the chunks in the order of batch_args
pool_map(p, order, phase) == Concat([b \in DOMAIN p |-> p[b].records])

-----------------------------------------------------------------------------
(* The writer as a state machine: assembly() from the topology step to the *)
(* two record files, for every order in which the pool's workers finish.   *)

\* the dem and lum rasters a job may be given
RasterConfigs ==
    {[dem |-> "missing", lum |-> "missing"],
     [dem |-> "west_half", lum |-> "void"],
     [dem |-> "unopenable", lum |-> "missing"],
     [dem |-> "covers", lum |-> "unopenable"],
     [dem |-> "covers", lum |-> "wide"]}

WriterSchemas == {SchemaH, SchemaQ}

WriterInit ==
    /\ \E sch \in WriterSchemas :
          LET g == Geometry(sch.patch_bounds[1], sch.grid_info)
          IN  \E S \in LeafSets(g.level_info, g.subdivide_rules) :
                /\ Cardinality(S) <= MaxCells
                /\ meta = g
                /\ patches = <<[bounds |-> sch.patch_bounds[1], active |-> S]>>
                /\ activated_cell_keys = S
                /\ merged = S
    /\ risk_threshold = -1
    /\ next_patch = 2
    /\ pc = "topology"
    /\ topo = NoTopo
    /\ rasters \in RasterConfigs
    /\ wpc = "idle"
    /\ pool = <<>>
    /\ finish_order = <<>>
    /\ cell_topo = <<>>
    /\ edge_topo = <<>>
    /\ cache = initialize_default
    /\ pre = initialize_default
    /\ last = NoOp
    /\ nops = 0
    /\ BlkIdle
    /\ FileIdle
    /\ GeoIdle

Pending ==
    [status |-> "pending", raised |-> FALSE, records |-> <<>>, opened |-> {}, closed |-> {}]

\* min(os.cpu_count(), len(batch_args))
num_processes(p) == IF CpuCount < Len(p) THEN CpuCount ELSE Len(p)

\* mp.Pool(processes=0) raises ValueError: a run without batches fails
StartPool(n, phase) ==
    IF n = 0
    THEN /\ wpc' = "failed"
         /\ pool' = <<>>
    ELSE /\ wpc' = phase
         /\ pool' = [b \in DOMAIN BatchOffsets(n) |-> Pending]

\* _record_cell_topology up to the call of pool.map
StartCells ==
    /\ pc = "done" /\ wpc = "idle"
    /\ StartPool(Len(topo.array), "cells")
    /\ UNCHANGED <<rasters, finish_order, cell_topo, edge_topo>>
    /\ UNCHANGED <<storeVars, asmVars, blkVars, fileVars, geoVars>>

\* an idle pool process takes the next batch of the task queue
WorkerStart ==
    /\ wpc \in {"cells", "edges"}
    /\ Cardinality({b \in DOMAIN pool : pool[b].status = "running"}) < num_processes(pool)
    /\ \E b \in DOMAIN pool :
          /\ pool[b].status = "pending"
          /\ \A a \in 1..(b - 1) : pool[a].status # "pending"
          /\ pool' = [pool EXCEPT ![b].status = "running"]
    /\ UNCHANGED <<rasters, wpc, finish_order, cell_topo, edge_topo>>
    /\ UNCHANGED <<storeVars, asmVars, blkVars, fileVars, geoVars>>

\* a running worker returns its chunk of records, or ends with its exception
WorkerFinish ==
    /\ wpc \in {"cells", "edges"}
    /\ \E b \in DOMAIN pool :
          /\ pool[b].status = "running"
          /\ LET offset == (b - 1) * BatchSize
                 res == IF wpc = "cells"
                        THEN batch_cell_records_worker(
                                 Slice(topo.array, offset, BatchSize),
                                 Slice(topo.es.edges, offset, BatchSize), offset,
                                 meta.bounds, meta.level_info, meta.grid_info, rasters)
                        ELSE batch_edge_records_worker(
                                 Slice(topo.es.cache, offset, BatchSize),
                                 Slice(topo.es.adj, offset, BatchSize), offset,
                                 meta.bounds, rasters)
                 h == raster_handles(rasters)
             IN  pool' = [pool EXCEPT ![b] = [status |-> "finished", raised |-> res.raised,
                                              records |-> res.records,
                                              opened |-> h.opened, closed |-> h.closed]]
          /\ finish_order' = Append(finish_order, <<wpc, b>>)
    /\ UNCHANGED <<rasters, wpc, cell_topo, edge_topo>>
    /\ UNCHANGED <<storeVars, asmVars, blkVars, fileVars, geoVars>>

AllFinished == \A b \in DOMAIN pool : pool[b].status = "finished"
SomeRaised == \E b \in DOMAIN pool : pool[b].raised

\* pool.map returns when every batch is done, or re-raises a worker's exception;
\* the chunks are concatenated and cell_topo.bin is written
CollectCells ==
    /\ wpc = "cells" /\ AllFinished
    /\ IF SomeRaised
       THEN /\ wpc' = "failed"
            /\ UNCHANGED cell_topo
       ELSE /\ wpc' = "cells_written"
            /\ cell_topo' = pool_map(pool, finish_order, "cells")
    /\ UNCHANGED <<rasters, pool, finish_order, edge_topo>>
    /\ UNCHANGED <<storeVars, asmVars, blkVars, fileVars, geoVars>>

\* _record_edge_topology up to the call of pool.map
StartEdges ==
    /\ wpc = "cells_written"
    /\ StartPool(Len(topo.es.cache), "edges")
    /\ UNCHANGED <<rasters, finish_order, cell_topo, edge_topo>>
    /\ UNCHANGED <<storeVars, asmVars, blkVars, fileVars, geoVars>>

\* the same for the edge chunks and edge_topo.bin
CollectEdges ==
    /\ wpc = "edges" /\ AllFinished
    /\ IF SomeRaised
       THEN /\ wpc' = "failed"
            /\ UNCHANGED edge_topo
       ELSE /\ wpc' = "written"
            /\ edge_topo' = pool_map(pool, finish_order, "edges")
    /\ UNCHANGED <<rasters, pool, finish_order, cell_topo>>
    /\ UNCHANGED <<storeVars, asmVars, blkVars, fileVars, geoVars>>

WriterNext ==
    \/ FindCellNeighbours
    \/ CalcCellEdges
    \/ StartCells
    \/ WorkerStart
    \/ WorkerFinish
    \/ CollectCells
    \/ StartEdges
    \/ CollectEdges

SpecWriter == WriterInit /\ [][WriterNext]_vars

\* C11: for every order in which the batch workers finish, the cell stream and
\* the edge stream hold the batches in ascending start index: the k-th record
\* carries index k and is the record of the k-th cell (edge), so that every cell
\* and every edge has exactly one record.
C11_StreamsInIndexOrder ==
    /\ wpc \in {"cells_written", "edges", "written"} =>
          /\ Len(cell_topo) = Len(topo.array)
          /\ \A k \in DOMAIN cell_topo :
                /\ cell_topo[k].index = k
                /\ cell_topo[k].box = get_cell_coordinates(topo.array[k][1], topo.array[k][2],
                                           meta.bounds, meta.level_info, meta.grid_info)
                /\ cell_topo[k].west = SortedInts(topo.es.edges[k][WEST])
                /\ cell_topo[k].north = SortedInts(topo.es.edges[k][NORTH])
    /\ wpc = "written" =>
          /\ Len(edge_topo) = Len(topo.es.cache)
          /\ \A k \in DOMAIN edge_topo :
                /\ edge_topo[k].index = k
                /\ edge_topo[k].direction = topo.es.cache[k][1]
                /\ edge_topo[k].cells = topo.es.adj[k]
                /\ edge_topo[k].ends = edge_coordinates(topo.es.cache[k], meta.bounds)

\* both streams are written from several batches, and in each phase a later
\* batch finished before an earlier one
C11_Witness ==
    /\ wpc = "written"
    /\ Len(cell_topo) > BatchSize
    /\ Len(edge_topo) > 2 * BatchSize
    /\ \A phase \in {"cells", "edges"} :
          \E i, j \in DOMAIN finish_order :
              /\ i < j
              /\ finish_order[i][1] = phase /\ finish_order[j][1] = phase
              /\ finish_order[i][2] > finish_order[j][2]

\* what the sampling of a raster gives at the centre of a box or of an edge
SampleFails(kind, c) ==
    open_raster(kind) # "src" \/ get_raster_value(kind, c[1] + c[3], c[2] + c[4], meta.bounds) = <<>>

\* C12: a sampling failure in a worker (a raster that cannot be opened or read,
\* a point outside the extent, a nodata or out-of-range value) never aborts the
\* job: with cells to write the writer does not fail, every cell and edge gets
\* its record, and a failed sample gives altitude -9999 and category 0.
C12_SamplingFailureTolerated ==
    /\ (pc = "done" /\ topo.array # <<>>) => wpc # "failed"
    /\ wpc = "written" =>
          /\ Len(cell_topo) = Len(topo.array)
          /\ Len(edge_topo) = Len(topo.es.cache)
          /\ \A k \in DOMAIN cell_topo :
                /\ SampleFails(rasters.dem, cell_topo[k].box) => cell_topo[k].altitude = -9999
                /\ SampleFails(rasters.lum, cell_topo[k].box) => cell_topo[k].lum_type = 0
          /\ \A k \in DOMAIN edge_topo :
                /\ SampleFails(rasters.dem, edge_topo[k].ends) => edge_topo[k].altitude = -9999
                /\ SampleFails(rasters.lum, edge_topo[k].ends) => edge_topo[k].lum_type = 0

\* C24: every raster a batch worker has opened is closed by the time the worker
\* finishes, whether it returned its records or ended with an exception (a
\* record that cannot be generated, or a second raster that cannot be opened
\* after the first one was).
C24_RastersClosed ==
    \A b \in DOMAIN pool :
        pool[b].status = "finished" => pool[b].opened \subseteq pool[b].closed

-----------------------------------------------------------------------------
(* Claims about the assembly pipeline *)

\* C29: for every patch merged so far and every active cell (level L, column u,
\* row v) of it, the remapped column round(fx * W_L) + u is below the meta-grid
\* width W_L and the remapped row round(fy * H_L) + v is below the height H_L;
\* the cell's meta key is the one of that column and row, and distinct cells of
\* the patch have distinct meta keys.
C29_RemapWithinLevel ==
    pc \in {"patches", "resolve"} =>
        \A i \in 1..(next_patch - 1) :
            LET patch == patches[i]
                patch_li == LevelInfoOf(SubdivideRulesOf(patch.bounds, meta.grid_info),
                                        Len(meta.grid_info))
                W(L) == Info(meta.level_info, L).width
                H(L) == Info(meta.level_info, L).height
                col(k) == RoundMul(patch.bounds[1] - meta.bounds[1],
                                   meta.bounds[3] - meta.bounds[1], W(k[1]))
                          + (k[2] % Info(patch_li, k[1]).width)
                row(k) == RoundMul(patch.bounds[2] - meta.bounds[2],
                                   meta.bounds[4] - meta.bounds[2], H(k[1]))
                          + (k[2] \div Info(patch_li, k[1]).width)
            IN  /\ \A k \in patch.active :
                      /\ col(k) < W(k[1])
                      /\ row(k) < H(k[1])
                      /\ <<k[1], row(k) * W(k[1]) + col(k)>> \in merged
                /\ Cardinality(update_cells_by_patch(patch, meta.grid_info, meta.bounds,
                                                     meta.level_info))
                     = Cardinality(patch.active)

\* positions of assembly() after the conflict filter
AfterResolve == {"grade", "topology", "edges", "done", "failed"}

\* column and row of a key in its level's table
ColOf(k, li) == k[2] % Info(li, k[1]).width
RowOf(k, li) == k[2] \div Info(li, k[1]).width

\* the cell of level l reached from key k by dividing its column and row by the
\* subdivision factors of the levels k[1]-1 down to l
RECURSIVE AncestorAt(_, _, _, _)
AncestorAt(k, l, li, rules) ==
    IF k[1] <= l THEN k
    ELSE AncestorAt(<<k[1] - 1,
                      (RowOf(k, li) \div Rule(rules, k[1] - 1).e1) * Info(li, k[1] - 1).width
                      + (ColOf(k, li) \div Rule(rules, k[1] - 1).e0)>>,
                    l, li, rules)

IsStrictAncestor(a, k, li, rules) == a[1] < k[1] /\ AncestorAt(k, a[1], li, rules) = a

\* C1: after the conflict filter of assembly(), no key of the active set has a strict
\* ancestor or a strict descendant in the set, whatever the patches contributed.
C1_LeafInvariant ==
    pc \in AfterResolve =>
        \A k \in activated_cell_keys : \A a \in activated_cell_keys :
            /\ ~IsStrictAncestor(a, k, meta.level_info, meta.subdivide_rules)
            /\ ~IsStrictAncestor(k, a, meta.level_info, meta.subdivide_rules)

\* C1 witness: the filter has run on a merge in which a cell and a descendant two
\* levels deeper were both active, without the cell between them, and it removed
\* the ancestor and kept the descendant.
C1_Witness ==
    /\ pc = "grade"
    /\ \E a \in merged \ activated_cell_keys : \E k \in activated_cell_keys :
          /\ a[1] + 2 = k[1]
          /\ IsStrictAncestor(a, k, meta.level_info, meta.subdivide_rules)
          /\ \A m \in merged : ~(m[1] = a[1] + 1
                                 /\ IsStrictAncestor(m, k, meta.level_info, meta.subdivide_rules))

\* the patch loop of assembly() run over the list ps
RECURSIVE MergePatches(_, _, _, _)
MergePatches(ps, gi, meta_bounds, meta_level_info) ==
    IF ps = <<>> THEN {}
    ELSE MergePatches(SubSeq(ps, 1, Len(ps) - 1), gi, meta_bounds, meta_level_info)
         \cup update_cells_by_patch(ps[Len(ps)], gi, meta_bounds, meta_level_info)

Reverse(q) == [i \in DOMAIN q |-> q[Len(q) + 1 - i]]

\* C18: the conflict filter removes a key of the merged set exactly when a strict
\* descendant of it is in the merged set and keeps every other key, and the
\* result is the same when the patches are merged in the reverse order.
C18_ResolveExact ==
    [][pc = "resolve" =>
         /\ activated_cell_keys' =
               {k \in merged :
                   ~\E d \in merged :
                       IsStrictAncestor(k, d, meta.level_info, meta.subdivide_rules)}
         /\ activated_cell_keys' =
               resolve_conflicts(MergePatches(Reverse(patches), meta.grid_info,
                                              meta.bounds, meta.level_info),
                                 meta.level_info, meta.subdivide_rules)]_vars

\* the filter has run on a merge to which both patches gave keys the other did
\* not give, and it removed one key and kept one whose level is not the deepest
C18_Witness ==
    /\ pc = "grade"
    /\ LET a == update_cells_by_patch(patches[1], meta.grid_info, meta.bounds, meta.level_info)
           b == update_cells_by_patch(patches[2], meta.grid_info, meta.bounds, meta.level_info)
       IN  a \ b # {} /\ b \ a # {}
    /\ merged \ activated_cell_keys # {}
    /\ \E k \in activated_cell_keys : k[1] < NumLevels(meta.level_info) - 1

\* the rectangle of a key as fractions of the domain: <<x_min, x_max, y_min, y_max>>
RectOf(k, li) ==
    <<<<ColOf(k, li), Info(li, k[1]).width>>, <<ColOf(k, li) + 1, Info(li, k[1]).width>>,
      <<RowOf(k, li), Info(li, k[1]).height>>, <<RowOf(k, li) + 1, Info(li, k[1]).height>>>>

FracEq(f, g) == f[1] * g[2] = g[1] * f[2]
FracLeq(f, g) == f[1] * g[2] <= g[1] * f[2]

\* two cells share a side: their rectangles touch along a segment of positive length
SharesSide(a, b, li) ==
    LET ra == RectOf(a, li)
        rb == RectOf(b, li)
    IN  \/ /\ FracEq(ra[2], rb[1]) \/ FracEq(rb[2], ra[1])
           /\ FracLess(ra[3], rb[4]) /\ FracLess(rb[3], ra[4])
        \/ /\ FracEq(ra[4], rb[3]) \/ FracEq(rb[4], ra[3])
           /\ FracLess(ra[1], rb[2]) /\ FracLess(rb[1], ra[2])

\* positions of assembly() after the grading block
AfterGrade == {"topology", "edges", "done", "failed"}

\* C7: when the grading block has run with a threshold t >= 0 on a conflict-free
\* leaf set, it has produced a leaf set in which no two cells sharing a side differ
\* by more than t levels.
C7_BalancedAfterGrading ==
    (pc \in AfterGrade /\ risk_threshold >= 0) =>
        /\ pc # "failed"
        /\ \A a \in activated_cell_keys : \A b \in activated_cell_keys :
              SharesSide(a, b, meta.level_info) =>
                  (a[1] - b[1] <= risk_threshold /\ b[1] - a[1] <= risk_threshold)

\* C19: for every conflict-free leaf set and every threshold t >= 0 the grading
\* loop of assembly() ends normally: it never fails part-way.
C19_BalancingTerminates ==
    risk_threshold >= 0 => pc # "failed"

\* positions of assembly() after the neighbour resolution
AfterNeighbours == {"edges", "done"}

\* the side facing side d, from the two bits of the edge codes
OppositeSide(d) == (d + 2) % 4

\* C20: after the neighbour resolution j is a neighbour of i on side d exactly
\* when i is a neighbour of j on the opposite side, and no cell is its own
\* neighbour.
C20_NeighbourSymmetry ==
    pc \in AfterNeighbours =>
        \A i \in DOMAIN topo.array : \A d \in EdgeCodes :
            /\ i \notin topo.neighbours[i][d]
            /\ \A j \in DOMAIN topo.array :
                  (j \in topo.neighbours[i][d])
                  <=> (i \in topo.neighbours[j][OppositeSide(d)])

\* a cell with two finer neighbours on one side, and a neighbour on another side
C20_Witness ==
    /\ pc \in AfterNeighbours
    /\ \E i \in DOMAIN topo.array : \E d, e \in EdgeCodes :
          /\ d # e
          /\ Cardinality(topo.neighbours[i][d]) >= 2
          /\ \A j \in topo.neighbours[i][d] : topo.array[j][1] > topo.array[i][1]
          /\ topo.neighbours[i][e] # {}

\* leaf b touches side d of leaf a along a segment of positive length
TouchesSide(a, b, d, li) ==
    LET ra == RectOf(a, li)
        rb == RectOf(b, li)
    IN  CASE d = NORTH -> /\ FracEq(ra[4], rb[3])
                          /\ FracLess(ra[1], rb[2]) /\ FracLess(rb[1], ra[2])
          [] d = SOUTH -> /\ FracEq(ra[3], rb[4])
                          /\ FracLess(ra[1], rb[2]) /\ FracLess(rb[1], ra[2])
          [] d = WEST  -> /\ FracEq(ra[1], rb[2])
                          /\ FracLess(ra[3], rb[4]) /\ FracLess(rb[3], ra[4])
          [] d = EAST  -> /\ FracEq(ra[2], rb[1])
                          /\ FracLess(ra[3], rb[4]) /\ FracLess(rb[3], ra[4])

\* C21: after the neighbour resolution of a conflict-free leaf set,
\* neighbours[c][d] is exactly the set of leaves whose rectangle touches side d
\* of c along a segment of positive length, at whatever level they are; it has
\* more than one member only when all its members are finer than c.
C21_NeighboursExact ==
    pc \in AfterNeighbours =>
        \A i \in DOMAIN topo.array : \A d \in EdgeCodes :
            /\ topo.neighbours[i][d] =
                  {j \in DOMAIN topo.array :
                      TouchesSide(topo.array[i], topo.array[j], d, meta.level_info)}
            /\ Cardinality(topo.neighbours[i][d]) > 1 =>
                  \A j \in topo.neighbours[i][d] : topo.array[j][1] > topo.array[i][1]

\* some cell has a coarser neighbour on a side, some cell has two finer
\* neighbours on a side, and some cell has no neighbour on a side that is not on
\* the domain boundary
C21_Witness ==
    /\ pc \in AfterNeighbours
    /\ \E i \in DOMAIN topo.array : \E d \in EdgeCodes :
          \E j \in topo.neighbours[i][d] : topo.array[j][1] < topo.array[i][1]
    /\ \E i \in DOMAIN topo.array : \E d \in EdgeCodes :
          /\ Cardinality(topo.neighbours[i][d]) >= 2
    /\ \E i \in DOMAIN topo.array : \E d \in EdgeCodes :
          /\ topo.neighbours[i][d] = {}
          /\ cell_across(d, topo.array[i][1], topo.array[i][2], meta.level_info) # <<>>

\* the cells of the array lying on one side of an edge and touching it along a
\* segment of positive length; side 1 is north of a horizontal edge or west of a
\* vertical one, side 2 is south or east
SideCells(edge_key, side, array, li) ==
    LET lo     == <<edge_key[2], edge_key[3]>>
        hi     == <<edge_key[4], edge_key[5]>>
        shared == <<edge_key[6], edge_key[7]>>
    IN  {i \in DOMAIN array :
            LET r == RectOf(array[i], li)
            IN  IF edge_key[1] = 1
                THEN /\ FracEq(IF side = 1 THEN r[3] ELSE r[4], shared)
                     /\ FracLess(r[1], hi) /\ FracLess(lo, r[2])
                ELSE /\ FracEq(IF side = 1 THEN r[2] ELSE r[1], shared)
                     /\ FracLess(r[3], hi) /\ FracLess(lo, r[4])}

\* the slot an edge must carry for a side: the one cell there, or 0 for none
SlotOf(S) == IF S = {} THEN 0 ELSE CHOOSE i \in S : TRUE

\* C8: in the edge list built from a conflict-free leaf set, an edge between two
\* leaf cells carries both of them in its two slots, an edge with no leaf on one
\* side carries its one cell and an empty slot, and no edge has two empty slots.
C8_EdgeSlots ==
    pc = "done" =>
        \A e \in DOMAIN topo.es.cache :
            LET first  == SideCells(topo.es.cache[e], 1, topo.array, meta.level_info)
                second == SideCells(topo.es.cache[e], 2, topo.array, meta.level_info)
            IN  /\ Cardinality(first) <= 1
                /\ Cardinality(second) <= 1
                /\ topo.es.adj[e] = <<SlotOf(first), SlotOf(second)>>
                /\ topo.es.adj[e] # <<0, 0>>

\* C8 witness: an edge list with an edge between two cells of different levels,
\* an edge on the outer boundary and an edge along an uncovered hole
C8_Witness ==
    /\ pc = "done"
    /\ \E e \in DOMAIN topo.es.cache :
          /\ topo.es.adj[e][1] # 0 /\ topo.es.adj[e][2] # 0
          /\ topo.array[topo.es.adj[e][1]][1] # topo.array[topo.es.adj[e][2]][1]
    /\ \E e \in DOMAIN topo.es.cache :
          /\ topo.es.adj[e][1] = 0
          /\ topo.es.cache[e][1] = 1
          /\ topo.es.cache[e][6] = topo.es.cache[e][7]
    /\ \E e \in DOMAIN topo.es.cache :
          /\ topo.es.adj[e][2] = 0
          /\ topo.es.cache[e][6] # 0
          /\ topo.es.cache[e][6] # topo.es.cache[e][7]

\* the statement of C9 as it was made: with grading disabled, the edge list of any
\* assembled leaf set, holes included, has at most 4 edges per cell
C9_EdgeBoundAnySet ==
    (pc = "done" /\ risk_threshold = -1) =>
        Len(topo.es.cache) <= 4 * Len(topo.array)

\* a side of a cell is partly covered: leaf cells border it, but not along its
\* whole length
PartlyCovered(i, code, array, neighbours, li) ==
    LET r == RectOf(array[i], li)
        horizontal == code = NORTH \/ code = SOUTH
        lo == IF horizontal THEN r[1] ELSE r[3]
        hi == IF horizontal THEN r[2] ELSE r[4]
        nlo(j) == IF horizontal THEN RectOf(array[j], li)[1] ELSE RectOf(array[j], li)[3]
        nhi(j) == IF horizontal THEN RectOf(array[j], li)[2] ELSE RectOf(array[j], li)[4]
        ns == neighbours[i][code]
        covered(p) == \E j \in ns : FracLeq(nlo(j), p) /\ FracLess(p, nhi(j))
    IN  /\ ns # {}
        /\ \/ ~covered(lo)
           \/ \E j \in ns : FracLess(nhi(j), hi) /\ ~covered(nhi(j))

NoPartlyCoveredSide ==
    \A i \in DOMAIN topo.array : \A code \in EdgeCodes :
        ~PartlyCovered(i, code, topo.array, topo.neighbours, meta.level_info)

\* C9: with grading disabled, the edge list of an assembled leaf set in which every
\* side of every cell is bordered by leaf cells along its whole length or not at all
\* (every set without holes is such a set) has at most 4 edges per cell.
C9_EdgeBound ==
    (pc = "done" /\ risk_threshold = -1 /\ NoPartlyCoveredSide) =>
        Len(topo.es.cache) <= 4 * Len(topo.array)

\* C9 witness: an edge list built with grading disabled for a set of cells of
\* different levels with a side shared by one cell and two finer ones, and with a
\* whole side of a cell lying along a hole
C9_Witness ==
    /\ pc = "done" /\ risk_threshold = -1 /\ NoPartlyCoveredSide
    /\ \E i \in DOMAIN topo.array : \E code \in EdgeCodes :
          Cardinality(topo.neighbours[i][code]) = 2
    /\ \E e \in DOMAIN topo.es.cache :
          /\ topo.es.adj[e][2] = 0
          /\ topo.es.cache[e][6] # 0
          /\ topo.es.cache[e][6] # topo.es.cache[e][7]

\* the segment along which leaf b touches side d of leaf a, as an edge key would
\* describe it: <<direction, min, max, shared>> with unreduced fractions
FracMax(f, g) == IF FracLess(f, g) THEN g ELSE f
FracMin(f, g) == IF FracLess(f, g) THEN f ELSE g
SegmentOf(a, b, d, li) ==
    LET ra == RectOf(a, li)
        rb == RectOf(b, li)
    IN  CASE d = NORTH -> <<1, FracMax(ra[1], rb[1]), FracMin(ra[2], rb[2]), ra[4]>>
          [] d = SOUTH -> <<1, FracMax(ra[1], rb[1]), FracMin(ra[2], rb[2]), ra[3]>>
          [] d = WEST  -> <<0, FracMax(ra[3], rb[3]), FracMin(ra[4], rb[4]), ra[1]>>
          [] d = EAST  -> <<0, FracMax(ra[3], rb[3]), FracMin(ra[4], rb[4]), ra[2]>>

KeyMin(k) == <<k[2], k[3]>>
KeyMax(k) == <<k[4], k[5]>>
KeyShared(k) == <<k[6], k[7]>>
LowestTerms(f) == f[2] > 0 /\ Gcd(f[1], f[2]) = 1

\* C22: the edge list never holds the same geometric segment twice: every stored
\* key has its three fractions in lowest terms and min <= max, no two edge
\* indices carry the same key, and the edge of a side shared by two adjacent
\* cells is one and the same index whether it was requested from the one cell
\* or from the other.
C22_NoDuplicateEdge ==
    pc = "done" =>
        /\ \A e \in DOMAIN topo.es.cache :
              LET k == topo.es.cache[e]
              IN  /\ LowestTerms(KeyMin(k)) /\ LowestTerms(KeyMax(k))
                  /\ LowestTerms(KeyShared(k))
                  /\ FracLeq(KeyMin(k), KeyMax(k))
        /\ \A e1, e2 \in DOMAIN topo.es.cache :
              topo.es.cache[e1] = topo.es.cache[e2] => e1 = e2
        /\ \A i \in DOMAIN topo.array : \A d \in EdgeCodes :
              \A j \in topo.neighbours[i][d] :
                  LET seg == SegmentOf(topo.array[i], topo.array[j], d, meta.level_info)
                      both == topo.es.edges[i][d] \cap topo.es.edges[j][OppositeSide(d)]
                  IN  /\ Cardinality(both) = 1
                      /\ \A e \in both :
                            LET k == topo.es.cache[e]
                            IN  /\ k[1] = seg[1]
                                /\ FracEq(KeyMin(k), seg[2])
                                /\ FracEq(KeyMax(k), seg[3])
                                /\ FracEq(KeyShared(k), seg[4])

\* an edge list in which a side is shared by cells of different levels, so that
\* the two cells write the segment with different denominators, and in which a
\* fraction had to be reduced
C22_Witness ==
    /\ pc = "done"
    /\ \E i \in DOMAIN topo.array : \E d \in EdgeCodes :
          \E j \in topo.neighbours[i][d] :
              /\ topo.array[i][1] < topo.array[j][1]
              /\ \E e \in topo.es.edges[i][d] \cap topo.es.edges[j][OppositeSide(d)] :
                    /\ topo.es.cache[e][5] > 1
                    /\ topo.es.cache[e][5] <
                          Info(meta.level_info, topo.array[j][1]).width
                          * Info(meta.level_info, topo.array[j][1]).height

\* C23: the two slots of an edge record are ordered by position and not by the
\* order in which the cells were processed: the cell in slot 0 lies on the north
\* side of a horizontal edge or on the west side of a vertical one, the cell in
\* slot 1 on the south or east side.
C23_SlotOrientation ==
    pc = "done" =>
        \A e \in DOMAIN topo.es.cache :
            LET k  == topo.es.cache[e]
                c0 == topo.es.adj[e][1]
                c1 == topo.es.adj[e][2]
                r0 == RectOf(topo.array[c0], meta.level_info)
                r1 == RectOf(topo.array[c1], meta.level_info)
            IN  /\ c0 # 0 => IF k[1] = 1 THEN FracEq(r0[3], KeyShared(k))
                                         ELSE FracEq(r0[2], KeyShared(k))
                /\ c1 # 0 => IF k[1] = 1 THEN FracEq(r1[4], KeyShared(k))
                                         ELSE FracEq(r1[1], KeyShared(k))

\* one edge list holds an edge whose north or west cell was processed first and
\* an edge whose south or east cell was processed first
C23_Witness ==
    /\ pc = "done"
    /\ \E e \in DOMAIN topo.es.cache :
          /\ topo.es.adj[e][1] # 0 /\ topo.es.adj[e][2] # 0
          /\ topo.es.adj[e][1] < topo.es.adj[e][2]
    /\ \E e \in DOMAIN topo.es.cache :
          /\ topo.es.adj[e][1] # 0 /\ topo.es.adj[e][2] # 0
          /\ topo.es.adj[e][1] > topo.es.adj[e][2]

\* side d of leaf a as an edge key would describe it
SideOf(a, d, li) ==
    LET ra == RectOf(a, li)
    IN  CASE d = NORTH -> <<1, ra[1], ra[2], ra[4]>>
          [] d = SOUTH -> <<1, ra[1], ra[2], ra[3]>>
          [] d = WEST  -> <<0, ra[3], ra[4], ra[1]>>
          [] d = EAST  -> <<0, ra[3], ra[4], ra[2]>>

\* C25: after edge building the edges in the set of a side of a cell lie on that
\* side, have pairwise non-overlapping extents, and their union is exactly the
\* full extent of the side; hence every side of every cell has at least one edge.
C25_SideTiled ==
    pc = "done" =>
        \A i \in DOMAIN topo.array : \A d \in EdgeCodes :
            LET side == SideOf(topo.array[i], d, meta.level_info)
                E == topo.es.edges[i][d]
                K(e) == topo.es.cache[e]
            IN  /\ E # {}
                /\ \A e \in E :
                      /\ K(e)[1] = side[1]
                      /\ FracEq(KeyShared(K(e)), side[4])
                      /\ FracLess(KeyMin(K(e)), KeyMax(K(e)))
                      /\ FracLeq(side[2], KeyMin(K(e)))
                      /\ FracLeq(KeyMax(K(e)), side[3])
                      /\ \/ FracEq(KeyMax(K(e)), side[3])
                         \/ \E f \in E : FracEq(KeyMin(K(f)), KeyMax(K(e)))
                /\ \E e \in E : FracEq(KeyMin(K(e)), side[2])
                /\ \A e, f \in E :
                      e # f => \/ FracLeq(KeyMax(K(e)), KeyMin(K(f)))
                               \/ FracLeq(KeyMax(K(f)), KeyMin(K(e)))

\* a side that is tiled by an edge towards a finer neighbour and an edge along
\* uncovered area, and a side tiled by two edges towards two finer neighbours
C25_Witness ==
    /\ pc = "done"
    /\ \E i \in DOMAIN topo.array : \E d \in EdgeCodes :
          /\ Cardinality(topo.es.edges[i][d]) >= 2
          /\ \E e \in topo.es.edges[i][d] : 0 \in Range(topo.es.adj[e])
          /\ \E e \in topo.es.edges[i][d] : 0 \notin Range(topo.es.adj[e])
    /\ \E i \in DOMAIN topo.array : \E d \in EdgeCodes :
          /\ Cardinality(topo.es.edges[i][d]) >= 2
          /\ \A e \in topo.es.edges[i][d] : 0 \notin Range(topo.es.adj[e])

\* C26: the references from cells to edges and from edges to cells agree: cell c
\* is one of the adjacent cells of edge e exactly when e is in one of the four
\* side sets of c, and e is then in exactly one of them.
C26_CrossReferences ==
    pc = "done" =>
        \A e \in DOMAIN topo.es.cache : \A c \in DOMAIN topo.array :
            LET sides == {d \in EdgeCodes : e \in topo.es.edges[c][d]}
            IN  /\ c \in Range(topo.es.adj[e]) <=> sides # {}
                /\ Cardinality(sides) <= 1

\* a cell with two edges on one side, each of them shared with another cell that
\* was processed later
C26_Witness ==
    /\ pc = "done"
    /\ \E c \in DOMAIN topo.array : \E d \in EdgeCodes :
          /\ Cardinality(topo.es.edges[c][d]) >= 2
          /\ \A e \in topo.es.edges[c][d] :
                \E b \in Range(topo.es.adj[e]) : b > c

-----------------------------------------------------------------------------
(* The block partitioner (BlockGenerator, crms/grid.py) *)

RECURSIVE Pow2(_)
Pow2(n) == IF n = 0 THEN 1 ELSE 2 * Pow2(n - 1)

\* coordinates are integers in units of 1 / Scale of a first-level cell, so that
\* every centre and every midpoint down to the deepest call is exact
Scale == Pow2(RecursionLimit + 1)

\* HydroElement.bounds of the cells an input list may hold: three cells of one size,
\* a larger cell over all of them, and two very small cells in the corner of the
\* first one, whose centres are distinct but closer to each other than the
\* bisection can resolve within the recursion limit
ElementBounds ==
    {<<0, 0, Scale, Scale>>, <<Scale, 0, 2 * Scale, Scale>>,
     <<0, Scale, Scale, 2 * Scale>>, <<0, 0, 2 * Scale, 2 * Scale>>,
     <<0, 0, 2, 2>>, <<0, 0, 4, 4>>}

\* input lists: element i of a list carries index i; bounds may repeat
ElementLists ==
    UNION {{[i \in 1..n |-> [index |-> i, bounds |-> f[i]]] : f \in [1..n -> ElementBounds]} :
           n \in 0..MaxElements}

\* HydroElement.center
center(e) == <<(e.bounds[1] + e.bounds[3]) \div 2, (e.bounds[2] + e.bounds[4]) \div 2>>

\* process(): the bounds of all elements
GlobalBounds(es) ==
    <<SetMin({es[i].bounds[1] : i \in DOMAIN es}), SetMin({es[i].bounds[2] : i \in DOMAIN es}),
      SetMax({es[i].bounds[3] : i \in DOMAIN es}), SetMax({es[i].bounds[4] : i \in DOMAIN es})>>

\* the branch "if c < split" of the loops of _recursive_split
InFirst(c, split) == c < split

\* variant: an element whose centre lies on the split line is not taken
InSecond_strict(c, split) == c > split

\* the "else" branch of the loops of _recursive_split
InSecond(c, split) == ~(c < split)

\* _recursive_split past the size test: [list1, list2, bounds_1, bounds_2]
SplitOf(es, bounds) ==
    LET min_x == bounds[1]
        min_y == bounds[2]
        max_x == bounds[3]
        max_y == bounds[4]
        width  == max_x - min_x
        height == max_y - min_y
        split_x == min_x + width \div 2
        split_y == (min_y + max_y) \div 2
    IN  IF width >= height
        THEN [list1 |-> SelectSeq(es, LAMBDA e : InFirst(center(e)[1], split_x)),
              list2 |-> SelectSeq(es, LAMBDA e : InSecond(center(e)[1], split_x)),
              bounds_1 |-> <<min_x, min_y, split_x, max_y>>,
              bounds_2 |-> <<split_x, min_y, max_x, max_y>>]
        ELSE [list1 |-> SelectSeq(es, LAMBDA e : InFirst(center(e)[2], split_y)),
              list2 |-> SelectSeq(es, LAMBDA e : InSecond(center(e)[2], split_y)),
              bounds_1 |-> <<min_x, min_y, max_x, split_y>>,
              bounds_2 |-> <<min_x, split_y, max_x, max_y>>]

Frame(es, bounds, depth) == [elements |-> es, bounds |-> bounds, depth |-> depth]

\* _save_metadata
save_metadata(counter, global_bounds, metas) ==
    [total_blocks |-> counter, global_bounds |-> global_bounds, blocks |-> metas]

BlkInit ==
    /\ elements \in ElementLists
    /\ max_blocks_size \in 1..MaxCap
    /\ call_stack = <<>>
    /\ block_counter = 0
    /\ blocks_meta = <<>>
    /\ block_files = <<>>
    /\ manifest = <<>>
    /\ bpc = "ready"
    /\ cache = initialize_default
    /\ pre = initialize_default
    /\ last = NoOp
    /\ nops = 0
    /\ AsmIdle
    /\ FileIdle
    /\ WrtIdle
    /\ GeoIdle

\* process() up to its call of _recursive_split; it returns at once on an empty list
Process ==
    /\ bpc = "ready"
    /\ IF elements = <<>>
       THEN /\ bpc' = "returned"
            /\ UNCHANGED call_stack
       ELSE /\ bpc' = "split"
            /\ call_stack' = <<Frame(elements, GlobalBounds(elements), 1)>>
    /\ UNCHANGED <<elements, max_blocks_size, block_counter, blocks_meta, block_files, manifest>>
    /\ UNCHANGED <<storeVars, asmVars, fileVars, wrtVars, geoVars>>

\* one call of _recursive_split: it writes a block (_create_block_file) or splits
\* and leaves its two calls pending; when the outermost call has returned,
\* process() writes the manifest
RecursiveSplit ==
    /\ bpc = "split"
    /\ call_stack # <<>>
    /\ Head(call_stack).depth <= RecursionLimit
    /\ LET f == Head(call_stack)
           count == Len(f.elements)
           sp == SplitOf(f.elements, f.bounds)
           calls == (IF sp.list1 # <<>> THEN <<Frame(sp.list1, sp.bounds_1, f.depth + 1)>> ELSE <<>>)
                    \o (IF sp.list2 # <<>> THEN <<Frame(sp.list2, sp.bounds_2, f.depth + 1)>> ELSE <<>>)
           write == count <= max_blocks_size
           stack == IF write THEN Tail(call_stack) ELSE calls \o Tail(call_stack)
           counter == IF write THEN block_counter + 1 ELSE block_counter
           metas == IF write
                    THEN Append(blocks_meta, [block_id |-> block_counter + 1, count |-> count,
                                              bounds |-> f.bounds])
                    ELSE blocks_meta
       IN  /\ call_stack' = stack
           /\ block_counter' = counter
           /\ blocks_meta' = metas
           /\ block_files' = IF write THEN Append(block_files, f.elements) ELSE block_files
           /\ IF stack = <<>>
              THEN /\ manifest' = save_metadata(counter, GlobalBounds(elements), metas)
                   /\ bpc' = "done"
              ELSE UNCHANGED <<manifest, bpc>>
    /\ UNCHANGED <<elements, max_blocks_size>>
    /\ UNCHANGED <<storeVars, asmVars, fileVars, wrtVars, geoVars>>

\* the interpreter's recursion limit is reached: RecursionError leaves process()
\* before _save_metadata
RecursionErrorRaised ==
    /\ bpc = "split"
    /\ call_stack # <<>>
    /\ Head(call_stack).depth > RecursionLimit
    /\ call_stack' = <<>>
    /\ bpc' = "failed"
    /\ UNCHANGED <<elements, max_blocks_size, block_counter, blocks_meta, block_files, manifest>>
    /\ UNCHANGED <<storeVars, asmVars, fileVars, wrtVars, geoVars>>

BlkNext ==
    \/ Process
    \/ RecursiveSplit
    \/ RecursionErrorRaised

SpecBlocks == BlkInit /\ [][BlkNext]_vars

\* in how many places of the written block files the element with index i stands
PlacesOf(i) ==
    Cardinality({p \in {<<j, n>> : j \in DOMAIN block_files, n \in 1..MaxElements} :
                    /\ p[2] <= Len(block_files[p[1]])
                    /\ block_files[p[1]][p[2]].index = i})

RECURSIVE SumOfCounts(_)
SumOfCounts(metas) ==
    IF metas = <<>> THEN 0 ELSE Head(metas).count + SumOfCounts(Tail(metas))

\* the manifest is written and describes a partition of the input list
Partitioned ==
    /\ manifest # <<>>
    /\ \A i \in DOMAIN elements : PlacesOf(i) = 1
    /\ Len(block_files) = Len(manifest.blocks)
    /\ \A j \in DOMAIN manifest.blocks : manifest.blocks[j].count = Len(block_files[j])
    /\ SumOfCounts(manifest.blocks) = Len(elements)
    /\ manifest.total_blocks = Len(manifest.blocks)

DistinctCentres(es) ==
    \A i, j \in DOMAIN es : i # j => center(es[i]) # center(es[j])

\* C30: for every non-empty list of cells with pairwise distinct centres and
\* every cap >= 1 the recursive bisection terminates: no call runs into the
\* recursion limit, and each branch ends in one written block of at most cap
\* cells.
C30_BisectionTerminates ==
    (elements # <<>> /\ DistinctCentres(elements)) =>
        /\ bpc # "failed"
        /\ \A j \in DOMAIN block_files :
              Len(block_files[j]) >= 1 /\ Len(block_files[j]) <= max_blocks_size
        /\ bpc = "done" => SumOfCounts(blocks_meta) = Len(elements)

====
